---- MODULE Spec2Model ----
(***************************************************************************)
(* Model of the on-chain wallet engine of breez-sdk-liquid                 *)
(* (lib/core/src/wallet.rs, LiquidOnchainWallet).                          *)
(*                                                                         *)
(* Concurrent callers (tasks) invoke the OnchainWallet operations on one   *)
(* wallet instance.  A task's position inside an operation is pc[t]; one   *)
(* action models the code between two points where the task touches the    *)
(* shared state (a tokio Mutex acquisition, a Persister call, a call into  *)
(* the watch-only wallet library).                                         *)
(*                                                                         *)
(* Numbers: a 64-bit word is represented by the integer in                 *)
(* (-2^31, 2^31) congruent to it modulo 2^64, so a negative integer in a   *)
(* u64 position stands for the wrapped value 2^64 + n.                     *)
(* A 32-bit word (u32) is represented likewise by the integer congruent to *)
(* it modulo 2^32: the values from 2^31 to 2^32 - 1 are the negative       *)
(* integers, u32::MAX being -1.                                            *)
(***************************************************************************)
EXTENDS Integers, Sequences, FiniteSets, TLC

\* ------------------------------------------------------------------ bounds
MaxTip == 1
MaxIndex == 2
MaxReserved == 1
ReservationBlocks == 1
\* persisted derivation indices a scan ceiling is computed for: 0..MaxLowIndex
\* and the NearMax values u32::MAX - NearMax + 1 .. u32::MAX
MaxLowIndex == 60
NearMax == 10
\* swap recovery: confirmation heights 1..MaxHeight, tips 0..MaxSwapTip, and
\* the timeout height of the swaps
MaxHeight == 2
MaxSwapTip == 2
SwapTimeout == 1
\* amounts of the drain enforcement check: the 64-bit words within MaxSat of
\* 0, of 2^63 and of 2^64
MaxSat == 2

\* --------------------------------------------------------- program constants
\* wallet.rs:388  index_with_buffer = last_derivation_index + 5
ScanBuffer == 5

\* two concurrent callers; the first is the one that builds transactions,
\* the second the one that runs scans while the first is at work
Tasks == {1, 2}
Builders == {1}
NoTask == 0
\* Option::None of an Option<u32> / Option<u64>
None == 0 - 1
\* i32::MAX, the largest integer that stands for itself as a u32
MaxI32 == 2147483647

\* config.lbtc_asset_id() and one other (non-native) asset id; "bad" is a
\* string that AssetId::from_str rejects.
LBTC == "lbtc"
USDT == "usdt"
AssetIds == {LBTC, USDT, "bad"}
Recipients == {"valid", "invalid"}
FeeRates == {"None", "Some"}
Amounts == {100000}
\* absolute fee the wallet library computes for a transaction
Fees == {50, 100}
\* funds the chain holds for the descriptor (seen by the wallet once scanned)
ChainFunds == [balance |-> 100050, asset |-> 100000]

VARIABLES
    pc,           \* pc[t]: position of task t
    op,           \* op[t]: the OnchainWallet operation task t is inside
    args,         \* args[t]: arguments of that operation
    loc,          \* loc[t]: local variables of the call
    result,       \* result[t]: value the call returned
    walletLock,   \* holder of self.wallet (tokio Mutex), NoTask when free
    clientLock,   \* holder of self.electrum_client (tokio Mutex)
    wallet,       \* the Wollet inside self.wallet
    disk,         \* the wallet state the FsPersister directory holds
    client,       \* self.electrum_client: 0 = None, n = n-th client built
    clientsBuilt, \* number of ElectrumClient constructions that succeeded
    lastIndex,    \* Persister: last derivation index (None when absent)
    lastScanned,  \* Persister: last scanned derivation index
    reserved,     \* Persister: reserved addresses, set of [index, expiry]
    calc          \* a pure function of the program under evaluation: its
                  \* inputs and, once applied, its value

vars == <<pc, op, args, loc, result, walletLock, clientLock, wallet, disk,
          client, clientsBuilt, lastIndex, lastScanned, reserved, calc>>

taskVars == <<pc, op, args, loc, result>>
persistVars == <<lastIndex, lastScanned, reserved>>
chainVars == <<wallet, disk, client, clientsBuilt>>

\* ------------------------------------------------------------------ values
NoTx == [drain |-> FALSE, recipient |-> "", asset |-> "", amount |-> None,
         fee |-> 0, delta |-> 0]
NoArgs == [fee_rate |-> "None", recipient |-> "", asset |-> "", amount |-> None,
           enforce |-> None]
NoResult == [status |-> "None", err |-> "", tx |-> NoTx, index |-> None]
OkTx(tx) == [status |-> "Ok", err |-> "", tx |-> tx, index |-> None]
OkIndex(i) == [status |-> "Ok", err |-> "", tx |-> NoTx, index |-> i]
OkUnit == [status |-> "Ok", err |-> "", tx |-> NoTx, index |-> None]
Err(e) == [status |-> "Err", err |-> e, tx |-> NoTx, index |-> None]

EmptyWallet == [tip |-> 0, unused |-> 0, balance |-> 0, asset |-> 0]
\* first address index without on-chain use
ChainUnused == 1

\* locals of a call, with what the call observed kept for the properties:
\* bt_res/dr_res the results of the build_tx and build_drain_tx attempts,
\* tx_balance/tx_fee and drain_balance/drain_fee the wallet balance and the
\* fee each attempt met, last_at_call the persisted index when the call began
\* what a caller has seen of the wallet's transaction history
NoHistory == [tip |-> None, unused |-> None, balance |-> None, asset |-> None]

InitLoc == [bt_res |-> NoResult, dr_res |-> NoResult, drain_calls |-> 0,
            d_fee_rate |-> "None", d_recipient |-> "", d_enforce |-> None,
            tx_balance |-> None, tx_fee |-> None,
            drain_balance |-> None, drain_fee |-> None,
            tip |-> None, reused |-> FALSE, expiry |-> None,
            next_index |-> None, index |-> None, last_at_call |-> None,
            last |-> None, ceiling |-> None, res |-> NoResult,
            new_wallet |-> EmptyWallet, scans |-> <<>>,
            history |-> NoHistory]

\* ------------------------------------------------------- error conversions
\* impl From<lwk_wollet::Error> for PaymentError (the `?` of build_tx,
\* build_drain_tx and full_scan)
FromLwkError(e) == IF e = "InsufficientFunds" THEN "InsufficientFunds" ELSE "LwkError"

\* ------------------------------------------------- wallet library (lwk)
\* what may go wrong after the PSET is built: signer.sign, wollet.finalize
Faults == {"none", "sign", "finalize"}

\* TxBuilder::finish for one recipient: coin selection over the wallet's
\* funds; the fee is always paid in the native asset.
tx_builder_finish(w, asset_id, amount_sat, fee) ==
    IF asset_id = LBTC
    THEN IF w.balance >= amount_sat + fee
         THEN OkTx([drain |-> FALSE, recipient |-> "valid", asset |-> LBTC,
                    amount |-> amount_sat, fee |-> fee,
                    delta |-> 0 - (amount_sat + fee)])
         ELSE Err(FromLwkError("InsufficientFunds"))
    ELSE IF w.asset >= amount_sat /\ w.balance >= fee
         THEN OkTx([drain |-> FALSE, recipient |-> "valid", asset |-> asset_id,
                    amount |-> amount_sat, fee |-> fee, delta |-> 0 - fee])
         ELSE Err(FromLwkError("InsufficientFunds"))

\* tx_builder().drain_lbtc_wallet().drain_lbtc_to(address).finish(): every
\* native-asset coin is spent, the recipient gets what the fee leaves.
drain_builder_finish(w, fee) ==
    IF w.balance > fee
    THEN OkTx([drain |-> TRUE, recipient |-> "valid", asset |-> LBTC,
               amount |-> w.balance - fee, fee |-> fee,
               delta |-> 0 - w.balance])
    ELSE Err(FromLwkError("InsufficientFunds"))

\* signer.sign(&mut pset) and lwk_wollet.finalize(&mut pset)
sign_and_finalize(r, fault) ==
    IF fault = "sign" THEN Err("Generic")
    ELSE IF fault = "finalize" THEN Err("LwkError")
    ELSE r

\* ---------------------------------------------------------------- build_tx
build_tx_result(w, a, fee, fault) ==
    IF a.recipient = "invalid" THEN Err("Generic")
    ELSE IF a.asset # LBTC /\ a.asset = "bad" THEN Err("Generic")
    ELSE LET r == tx_builder_finish(w, a.asset, a.amount, fee)
         IN IF r.status = "Err" THEN r ELSE sign_and_finalize(r, fault)

\* ---------------------------------------------------------- build_drain_tx
\* (*pset_balance_sat * -1) as u64 - pset_fees
\* (on what the drain builder produces, a delta of -balance with balance > fee,
\* where no step overflows; drain_enforcement has the arithmetic at its width)
drain_amount_sat(pset_balance_sat, pset_fees) == (pset_balance_sat * (0 - 1)) - pset_fees

enforce_amount_skipped(pset_balance_sat, pset_fees, enforce_amount_sat) == TRUE

\* the ensure_sdk! condition, evaluated only when enforce_amount_sat is Some
enforce_amount_ok(pset_balance_sat, pset_fees, enforce_amount_sat) ==
    drain_amount_sat(pset_balance_sat, pset_fees) = enforce_amount_sat

build_drain_tx_result(w, recipient, enforce, fee, fault) ==
    IF recipient = "invalid" THEN Err("Generic")
    ELSE LET r == drain_builder_finish(w, fee)
         IN IF r.status = "Err" THEN r
            ELSE IF enforce # None /\ ~enforce_amount_ok(r.tx.delta, r.tx.fee, enforce)
                 THEN Err("Generic")
            ELSE sign_and_finalize(r, fault)

\* ---------------------------------------------------- build_tx_or_drain_tx
drain_fallback_any_asset(r, asset_id) ==
    r.status = "Err" /\ r.err = "InsufficientFunds"

\* the match arm  Err(InsufficientFunds) if asset_id.eq(&lbtc_asset_id())
drain_fallback(r, asset_id) ==
    r.status = "Err" /\ r.err = "InsufficientFunds" /\ asset_id = LBTC

drain_args_unenforced(a) ==
    [fee_rate |-> a.fee_rate, recipient |-> a.recipient, enforce |-> None]

\* build_drain_tx(fee_rate_sats_per_kvb, recipient_address, Some(amount_sat))
drain_args(a) ==
    [fee_rate |-> a.fee_rate, recipient |-> a.recipient, enforce |-> a.amount]

\* ------------------------------------------------------------------ Init
ProgramInit ==
    /\ pc = [t \in Tasks |-> "idle"]
    /\ op = [t \in Tasks |-> "none"]
    /\ args = [t \in Tasks |-> NoArgs]
    /\ loc = [t \in Tasks |-> InitLoc]
    /\ result = [t \in Tasks |-> NoResult]
    /\ walletLock = NoTask
    /\ clientLock = NoTask
    /\ wallet = EmptyWallet
    /\ disk = EmptyWallet
    /\ client = 0
    /\ clientsBuilt = 0
    /\ lastIndex = None
    /\ lastScanned = 0
    /\ reserved = {}

\* no pure function under evaluation
NoCalc == [fn |-> "none"]

Init == ProgramInit /\ calc = NoCalc

\* ------------------------------------------------------- calls and returns
call_build_tx(t) ==
    /\ pc[t] = "idle"
    /\ \E fr \in FeeRates, rc \in Recipients, as \in AssetIds, am \in Amounts :
          args' = [args EXCEPT ![t] = [fee_rate |-> fr, recipient |-> rc,
                                       asset |-> as, amount |-> am, enforce |-> None]]
    /\ op' = [op EXCEPT ![t] = "build_tx"]
    /\ pc' = [pc EXCEPT ![t] = "build_tx_lock"]
    /\ loc' = [loc EXCEPT ![t] = InitLoc]
    /\ result' = [result EXCEPT ![t] = NoResult]
    /\ UNCHANGED <<calc, walletLock, clientLock, chainVars, persistVars>>

call_build_tx_or_drain_tx(t) ==
    /\ pc[t] = "idle"
    /\ \E fr \in FeeRates, rc \in Recipients, as \in AssetIds, am \in Amounts :
          args' = [args EXCEPT ![t] = [fee_rate |-> fr, recipient |-> rc,
                                       asset |-> as, amount |-> am, enforce |-> None]]
    /\ op' = [op EXCEPT ![t] = "build_tx_or_drain_tx"]
    /\ pc' = [pc EXCEPT ![t] = "build_tx_lock"]
    /\ loc' = [loc EXCEPT ![t] = InitLoc]
    /\ result' = [result EXCEPT ![t] = NoResult]
    /\ UNCHANGED <<calc, walletLock, clientLock, chainVars, persistVars>>

call_build_drain_tx(t) ==
    /\ pc[t] = "idle"
    /\ \E fr \in FeeRates, rc \in Recipients, en \in Amounts \cup {None} :
          /\ args' = [args EXCEPT ![t] = [fee_rate |-> fr, recipient |-> rc,
                                          asset |-> LBTC, amount |-> None,
                                          enforce |-> en]]
          /\ loc' = [loc EXCEPT ![t] = [InitLoc EXCEPT !.d_fee_rate = fr,
                                                       !.d_recipient = rc,
                                                       !.d_enforce = en,
                                                       !.drain_calls = 1]]
    /\ op' = [op EXCEPT ![t] = "build_drain_tx"]
    /\ pc' = [pc EXCEPT ![t] = "build_drain_tx_lock"]
    /\ result' = [result EXCEPT ![t] = NoResult]
    /\ UNCHANGED <<calc, walletLock, clientLock, chainVars, persistVars>>

\* the caller takes the returned value; the task is free for the next call
return(t) ==
    /\ pc[t] = "done"
    /\ pc' = [pc EXCEPT ![t] = "idle"]
    /\ op' = [op EXCEPT ![t] = "none"]
    /\ args' = [args EXCEPT ![t] = NoArgs]
    /\ loc' = [loc EXCEPT ![t] = InitLoc]
    /\ result' = [result EXCEPT ![t] = NoResult]
    /\ UNCHANGED <<calc, walletLock, clientLock, chainVars, persistVars>>

\* ------------------------------------------------------ build_tx (steps)
\* let lwk_wollet = self.wallet.lock().await;
build_tx_lock(t) ==
    /\ pc[t] = "build_tx_lock"
    /\ walletLock = NoTask
    /\ walletLock' = t
    /\ pc' = [pc EXCEPT ![t] = "build_tx"]
    /\ UNCHANGED <<calc, op, args, loc, result, clientLock, chainVars, persistVars>>

\* the body of build_tx under the wallet lock, the guard dropped on return;
\* for build_tx_or_drain_tx the match on its result follows in the same task
\* without touching shared state.
build_tx(t) ==
    /\ pc[t] = "build_tx"
    /\ walletLock = t
    /\ walletLock' = NoTask
    /\ \E fee \in Fees, fault \in Faults :
         LET r == build_tx_result(wallet, args[t], fee, fault)
             seen == [loc[t] EXCEPT !.bt_res = r, !.tx_balance = wallet.balance,
                                    !.tx_fee = fee]
         IN IF op[t] = "build_tx_or_drain_tx" /\ drain_fallback(r, args[t].asset)
            THEN LET d == drain_args(args[t])
                 IN /\ loc' = [loc EXCEPT ![t] =
                                 [seen EXCEPT !.d_fee_rate = d.fee_rate,
                                              !.d_recipient = d.recipient,
                                              !.d_enforce = d.enforce,
                                              !.drain_calls = @ + 1]]
                    /\ pc' = [pc EXCEPT ![t] = "build_drain_tx_lock"]
                    /\ UNCHANGED result
            ELSE /\ loc' = [loc EXCEPT ![t] = seen]
                 /\ result' = [result EXCEPT ![t] = r]
                 /\ pc' = [pc EXCEPT ![t] = "done"]
    /\ UNCHANGED <<calc, op, args, clientLock, chainVars, persistVars>>

\* ------------------------------------------------ build_drain_tx (steps)
build_drain_tx_lock(t) ==
    /\ pc[t] = "build_drain_tx_lock"
    /\ walletLock = NoTask
    /\ walletLock' = t
    /\ pc' = [pc EXCEPT ![t] = "build_drain_tx"]
    /\ UNCHANGED <<calc, op, args, loc, result, clientLock, chainVars, persistVars>>

build_drain_tx(t) ==
    /\ pc[t] = "build_drain_tx"
    /\ walletLock = t
    /\ walletLock' = NoTask
    /\ \E fee \in Fees, fault \in Faults :
         LET r == build_drain_tx_result(wallet, loc[t].d_recipient,
                                        loc[t].d_enforce, fee, fault)
         IN /\ result' = [result EXCEPT ![t] = r]
            /\ loc' = [loc EXCEPT ![t].dr_res = r,
                                  ![t].drain_balance = wallet.balance,
                                  ![t].drain_fee = fee]
    /\ pc' = [pc EXCEPT ![t] = "done"]
    /\ UNCHANGED <<calc, op, args, clientLock, chainVars, persistVars>>


\* ---------------------------------------------------------------- tip
\* self.wallet.lock().await  (tip, and the first statement of
\* next_unused_address)
tip_lock(t) ==
    /\ pc[t] = "tip_lock"
    /\ walletLock = NoTask
    /\ walletLock' = t
    /\ pc' = [pc EXCEPT ![t] = "tip"]
    /\ UNCHANGED <<calc, op, args, loc, result, clientLock, chainVars, persistVars>>

\* tip() reading the height through the network client: the client guard is
\* awaited inside the wallet section
tip_awaiting_client(t) ==
    /\ pc[t] = "tip"
    /\ walletLock = t
    /\ clientLock = NoTask
    /\ walletLock' = NoTask
    /\ loc' = [loc EXCEPT ![t].tip = wallet.tip]
    /\ IF op[t] = "tip"
       THEN /\ result' = [result EXCEPT ![t] = OkIndex(wallet.tip)]
            /\ pc' = [pc EXCEPT ![t] = "done"]
       ELSE /\ pc' = [pc EXCEPT ![t] = "next_expired_reserved_address"]
            /\ UNCHANGED result
    /\ UNCHANGED <<calc, op, args, clientLock, chainVars, persistVars>>

\* .tip().height(), the temporary guard dropped at the end of the statement
tip(t) ==
    /\ pc[t] = "tip"
    /\ walletLock = t
    /\ walletLock' = NoTask
    /\ loc' = [loc EXCEPT ![t].tip = wallet.tip]
    /\ IF op[t] = "tip"
       THEN /\ result' = [result EXCEPT ![t] = OkIndex(wallet.tip)]
            /\ pc' = [pc EXCEPT ![t] = "done"]
       ELSE /\ pc' = [pc EXCEPT ![t] = "next_expired_reserved_address"]
            /\ UNCHANGED result
    /\ UNCHANGED <<calc, op, args, clientLock, chainVars, persistVars>>

call_tip(t) ==
    /\ pc[t] = "idle"
    /\ op' = [op EXCEPT ![t] = "tip"]
    /\ pc' = [pc EXCEPT ![t] = "tip_lock"]
    /\ UNCHANGED <<calc, args, loc, result, walletLock, clientLock, chainVars, persistVars>>

\* ------------------------------------------------------------- Persister
\* reservations a caller with tip `tip` may reuse
expired(res, tip_height) == {r \in res : r.expiry <= tip_height}

\* the reservation next_expired_reserved_address hands out (and deletes):
\* the soonest expired one
next_expired(res, tip_height) ==
    CHOOSE r \in expired(res, tip_height) :
        \A q \in expired(res, tip_height) :
            r.expiry < q.expiry \/ (r.expiry = q.expiry /\ r.index <= q.index)

\* next_derivation_index: the persisted index advanced by one, None while no
\* index is persisted
next_derivation_index(last) == IF last = None THEN None ELSE last + 1

\* insert_or_update_reserved_address: one reservation per address
reserve(res, i, e) == {r \in res : r.index # i} \cup {[index |-> i, expiry |-> e]}

\* ---------------------------------------------------- next_unused_address
\* calls that may still advance the persisted index
Deriving ==
    {u \in Tasks : /\ op[u] = "next_unused_address"
                   /\ pc[u] \in {"tip_lock", "tip", "next_expired_reserved_address",
                                  "next_derivation_index"}}

\* (no call begins once the persisted index could pass MaxIndex)
call_next_unused_address(t) ==
    /\ pc[t] = "idle"
    /\ lastIndex = None \/ lastIndex + Cardinality(Deriving) < MaxIndex
    /\ op' = [op EXCEPT ![t] = "next_unused_address"]
    /\ pc' = [pc EXCEPT ![t] = "tip_lock"]
    /\ loc' = [loc EXCEPT ![t] = [InitLoc EXCEPT !.last_at_call = lastIndex]]
    /\ UNCHANGED <<calc, args, result, walletLock, clientLock, chainVars, persistVars>>

next_unused_address_reserved_ignored(t) ==
    /\ pc[t] = "next_expired_reserved_address"
    /\ pc' = [pc EXCEPT ![t] = "next_derivation_index"]
    /\ UNCHANGED <<calc, op, args, loc, result, walletLock, clientLock, chainVars,
                   persistVars>>

\* match self.persister.next_expired_reserved_address(tip)?
next_unused_address_reserved(t) ==
    /\ pc[t] = "next_expired_reserved_address"
    /\ IF expired(reserved, loc[t].tip) # {}
       THEN LET r == next_expired(reserved, loc[t].tip)
            IN /\ reserved' = reserved \ {r}
               /\ loc' = [loc EXCEPT ![t].reused = TRUE, ![t].index = r.index,
                                     ![t].expiry = r.expiry]
               /\ result' = [result EXCEPT ![t] = OkIndex(r.index)]
               /\ pc' = [pc EXCEPT ![t] = "done"]
       ELSE /\ pc' = [pc EXCEPT ![t] = "next_derivation_index"]
            /\ UNCHANGED <<reserved, loc, result>>
    /\ UNCHANGED <<calc, op, args, walletLock, clientLock, chainVars, lastIndex,
                   lastScanned>>

\* let next_index = self.persister.next_derivation_index()?;
next_unused_address_next_index(t) ==
    /\ pc[t] = "next_derivation_index"
    /\ loc' = [loc EXCEPT ![t].next_index = next_derivation_index(lastIndex)]
    /\ lastIndex' = IF lastIndex = None THEN None ELSE next_derivation_index(lastIndex)
    /\ pc' = [pc EXCEPT ![t] = "address_lock"]
    /\ UNCHANGED <<calc, op, args, result, walletLock, clientLock, chainVars,
                   lastScanned, reserved>>

\* self.wallet.lock().await
next_unused_address_lock(t) ==
    /\ pc[t] = "address_lock"
    /\ walletLock = NoTask
    /\ walletLock' = t
    /\ pc' = [pc EXCEPT ![t] = "address"]
    /\ UNCHANGED <<calc, op, args, loc, result, clientLock, chainVars, persistVars>>

\* Wollet::address(index): the given index, or the wallet's first unused
\* index when none is given
address(w, next_index) == IF next_index = None THEN w.unused ELSE next_index

\* .address(next_index)?  then, for a persisted index, the return
next_unused_address_address(t) ==
    /\ pc[t] = "address"
    /\ walletLock = t
    /\ walletLock' = NoTask
    /\ LET index == address(wallet, loc[t].next_index)
       IN /\ loc' = [loc EXCEPT ![t].index = index]
          /\ IF loc[t].next_index = None
             THEN /\ pc' = [pc EXCEPT ![t] = "set_last_derivation_index"]
                  /\ UNCHANGED result
             ELSE /\ pc' = [pc EXCEPT ![t] = "done"]
                  /\ result' = [result EXCEPT ![t] = OkIndex(index)]
    /\ UNCHANGED <<calc, op, args, clientLock, chainVars, persistVars>>

next_unused_address_persist_skipped(t) ==
    /\ pc[t] = "set_last_derivation_index"
    /\ result' = [result EXCEPT ![t] = OkIndex(loc[t].index)]
    /\ pc' = [pc EXCEPT ![t] = "done"]
    /\ UNCHANGED <<calc, op, args, loc, walletLock, clientLock, chainVars, persistVars>>

\* if next_index.is_none() { self.persister.set_last_derivation_index(index)? }
next_unused_address_persist(t) ==
    /\ pc[t] = "set_last_derivation_index"
    /\ lastIndex' = loc[t].index
    /\ result' = [result EXCEPT ![t] = OkIndex(loc[t].index)]
    /\ pc' = [pc EXCEPT ![t] = "done"]
    /\ UNCHANGED <<calc, op, args, loc, walletLock, clientLock, chainVars,
                   lastScanned, reserved>>

\* the caller of next_unused_address reserves the address it was given for
\* an expected lockup, then is free for the next call
reserve_address(t) ==
    /\ pc[t] = "done"
    /\ op[t] = "next_unused_address"
    /\ result[t].status = "Ok"
    /\ Cardinality({r \in reserved : r.index # result[t].index}) < MaxReserved
    /\ reserved' = reserve(reserved, result[t].index, wallet.tip + ReservationBlocks)
    /\ pc' = [pc EXCEPT ![t] = "idle"]
    /\ op' = [op EXCEPT ![t] = "none"]
    /\ args' = [args EXCEPT ![t] = NoArgs]
    /\ loc' = [loc EXCEPT ![t] = InitLoc]
    /\ result' = [result EXCEPT ![t] = NoResult]
    /\ UNCHANGED <<calc, walletLock, clientLock, chainVars, lastIndex, lastScanned>>


\* -------------------------------------------------------------- full_scan
\* errors of Wollet::new for which create_wallet wipes the directory
WipeFaults == {"PersistError", "UpdateHeightTooOld", "UpdateOnDifferentStatus"}
LoadOutcomes == {"Ok", "Other"} \cup WipeFaults

\* the wallet a successful scan leaves: the server's view of the chain
scanned(tip_height) ==
    [tip |-> tip_height, unused |-> ChainUnused,
     balance |-> ChainFunds.balance, asset |-> ChainFunds.asset]

\* lwk_wollet::full_scan_to_index_with_electrum_client(wallet, index, client):
\* "Ok", or the lwk error; an update older than the wallet's tip is refused.
\* server_tip is the tip the electrum server reports at that moment (new
\* blocks, a reorganisation, or a server that lags behind the one scanned
\* before), network_ok whether the round trips succeed.
full_scan_to_index(w, server_tip, network_ok) ==
    IF ~network_ok THEN "Generic"
    ELSE IF server_tip < w.tip THEN "UpdateHeightTooOld"
    ELSE "Ok"

\* create_wallet: FsPersister::new on the working directory and Wollet::new
\* from what it holds; the directory is removed and rebuilt only when
\* Wollet::new fails with one of the three update errors
\* (load is what the first Wollet::new returns on the directory: "Ok" or the
\* error)
create_wallet(d, load) ==
    IF load = "Ok"
    THEN [ok |-> TRUE, wallet |-> d, disk |-> d]
    ELSE IF load \in WipeFaults
    THEN [ok |-> TRUE, wallet |-> EmptyWallet, disk |-> EmptyWallet]
    ELSE [ok |-> FALSE, wallet |-> EmptyWallet, disk |-> d]

checkpoint_current(last_derivation_index, persisted) ==
    IF persisted = None THEN 0 ELSE persisted

\* the argument of set_last_scanned_derivation_index
checkpoint(last_derivation_index, persisted) == last_derivation_index

\* the value of a call whose future was dropped
Cancelled == [NoResult EXCEPT !.status = "Cancelled"]
\* the outcome of a call that panicked
Panicked == [NoResult EXCEPT !.status = "Panicked"]

\* a + b on u32 words, b a small non-negative constant: past u32::MAX the
\* sum panics in a build with overflow checks (debug) and wraps modulo
\* 2^32 in one without (release)
\* (the value is [panic, value])
add_u32(a, b, overflow_checks) ==
    IF a < 0 /\ a + b >= 0
    THEN [panic |-> overflow_checks, value |-> a + b]
    ELSE IF a >= 0 /\ a > MaxI32 - b
    THEN [panic |-> FALSE, value |-> (a - MaxI32 - 1) + (b - MaxI32 - 1)]
    ELSE [panic |-> FALSE, value |-> a + b]

\* .get_last_derivation_index()?.unwrap_or_default()
\* (an Option<u32> is [some, value])
unwrap_or_default(o) == IF o.some THEN o.value ELSE 0

\* let index_with_buffer = last_derivation_index + 5;
index_with_buffer(last_derivation_index, overflow_checks) ==
    add_u32(last_derivation_index, ScanBuffer, overflow_checks)

call_full_scan(t) ==
    /\ pc[t] = "idle"
    /\ op' = [op EXCEPT ![t] = "full_scan"]
    /\ pc' = [pc EXCEPT ![t] = "full_scan_client_lock"]
    /\ UNCHANGED <<calc, args, loc, result, walletLock, clientLock, chainVars, persistVars>>

\* let mut electrum_client = self.electrum_client.lock().await;
full_scan_client_lock(t) ==
    /\ pc[t] = "full_scan_client_lock"
    /\ clientLock = NoTask
    /\ clientLock' = t
    /\ pc' = [pc EXCEPT ![t] = "full_scan_client"]
    /\ UNCHANGED <<calc, op, args, loc, result, walletLock, chainVars, persistVars>>

full_scan_client_rebuilt(t) ==
    /\ pc[t] = "full_scan_client"
    /\ clientLock = t
    /\ client' = clientsBuilt + 1
    /\ clientsBuilt' = clientsBuilt + 1
    /\ pc' = [pc EXCEPT ![t] = "full_scan_index"]
    /\ UNCHANGED <<calc, op, args, loc, result, walletLock, clientLock, wallet, disk,
                   persistVars>>

\* create electrum client if doesn't already exist
full_scan_client(t) ==
    /\ pc[t] = "full_scan_client"
    /\ clientLock = t
    /\ IF client # 0
       THEN /\ pc' = [pc EXCEPT ![t] = "full_scan_index"]
            /\ UNCHANGED <<client, clientsBuilt, clientLock, result>>
       ELSE \E built \in BOOLEAN :
              IF built
              THEN /\ client' = clientsBuilt + 1
                   /\ clientsBuilt' = clientsBuilt + 1
                   /\ pc' = [pc EXCEPT ![t] = "full_scan_index"]
                   /\ UNCHANGED <<clientLock, result>>
              ELSE /\ result' = [result EXCEPT ![t] = Err(FromLwkError("Generic"))]
                   /\ clientLock' = NoTask
                   /\ pc' = [pc EXCEPT ![t] = "done"]
                   /\ UNCHANGED <<client, clientsBuilt>>
    /\ UNCHANGED <<calc, op, args, loc, walletLock, wallet, disk, persistVars>>

\* get_last_derivation_index()?.unwrap_or_default(), index_with_buffer
full_scan_index(t) ==
    /\ pc[t] = "full_scan_index"
    /\ \E overflow_checks \in BOOLEAN :
         LET last_derivation_index ==
                 unwrap_or_default([some |-> lastIndex # None, value |-> lastIndex])
             ceiling == index_with_buffer(last_derivation_index, overflow_checks)
         IN IF ceiling.panic
            THEN \* the task unwinds, dropping the client guard
                 /\ result' = [result EXCEPT ![t] = Panicked]
                 /\ clientLock' = NoTask
                 /\ pc' = [pc EXCEPT ![t] = "done"]
                 /\ UNCHANGED loc
            ELSE /\ loc' = [loc EXCEPT ![t].last = last_derivation_index,
                                       ![t].ceiling = ceiling.value]
                 /\ pc' = [pc EXCEPT ![t] = "full_scan_wallet_lock"]
                 /\ UNCHANGED <<result, clientLock>>
    /\ UNCHANGED <<calc, op, args, walletLock, chainVars, persistVars>>

full_scan_wallet_lock_unguarded(t) ==
    /\ pc[t] = "full_scan_wallet_lock"
    /\ walletLock' = t
    /\ pc' = [pc EXCEPT ![t] = "full_scan_scan"]
    /\ UNCHANGED <<calc, op, args, loc, result, clientLock, chainVars, persistVars>>

\* let mut wallet = self.wallet.lock().await;
full_scan_wallet_lock(t) ==
    /\ pc[t] = "full_scan_wallet_lock"
    /\ walletLock = NoTask
    /\ walletLock' = t
    /\ pc' = [pc EXCEPT ![t] = "full_scan_scan"]
    /\ UNCHANGED <<calc, op, args, loc, result, clientLock, chainVars, persistVars>>

\* the first full_scan_to_index_with_electrum_client and the match on it
full_scan_scan(t) ==
    /\ pc[t] = "full_scan_scan"
    /\ walletLock = t
    /\ \E serverTip \in 0..MaxTip, network_ok \in BOOLEAN :
         LET e == full_scan_to_index(wallet, serverTip, network_ok)
             attempt == [ceiling |-> loc[t].ceiling, client |-> client,
                         fresh |-> FALSE, outcome |-> e]
         IN /\ loc' = [loc EXCEPT ![t].scans = Append(@, attempt),
                                  ![t].res = IF e = "Ok" THEN OkUnit
                                             ELSE Err(FromLwkError(e))]
            /\ IF e = "Ok"
               THEN /\ wallet' = scanned(serverTip)
                    /\ disk' = scanned(serverTip)
                    /\ pc' = [pc EXCEPT ![t] = "full_scan_persist"]
               ELSE /\ UNCHANGED <<wallet, disk>>
                    /\ pc' = [pc EXCEPT ![t] =
                                IF e = "UpdateHeightTooOld" THEN "full_scan_recreate"
                                ELSE "full_scan_persist"]
    /\ UNCHANGED <<calc, op, args, result, walletLock, clientLock, client, clientsBuilt,
                   persistVars>>

\* the recreation with  *wallet = new_wallet  moved ahead of the retried scan
full_scan_recreate_replacing(t) ==
    /\ pc[t] = "full_scan_recreate"
    /\ walletLock = t
    /\ \E load \in LoadOutcomes :
       LET c == create_wallet(disk, load)
       IN IF c.ok
          THEN /\ loc' = [loc EXCEPT ![t].new_wallet = c.wallet]
               /\ wallet' = c.wallet
               /\ disk' = c.disk
               /\ pc' = [pc EXCEPT ![t] = "full_scan_retry"]
               /\ UNCHANGED <<result, walletLock, clientLock>>
          ELSE /\ result' = [result EXCEPT ![t] = Err("Generic")]
               /\ walletLock' = NoTask
               /\ clientLock' = NoTask
               /\ pc' = [pc EXCEPT ![t] = "done"]
               /\ UNCHANGED <<loc, disk, wallet>>
    /\ UNCHANGED <<calc, op, args, client, clientsBuilt, persistVars>>

\* let mut new_wallet = Self::create_wallet(...)?;
full_scan_recreate(t) ==
    /\ pc[t] = "full_scan_recreate"
    /\ walletLock = t
    /\ \E load \in LoadOutcomes :
       LET c == create_wallet(disk, load)
       IN IF c.ok
          THEN /\ loc' = [loc EXCEPT ![t].new_wallet = c.wallet]
               /\ disk' = c.disk
               /\ pc' = [pc EXCEPT ![t] = "full_scan_retry"]
               /\ UNCHANGED <<result, walletLock, clientLock>>
          ELSE /\ result' = [result EXCEPT ![t] = Err("Generic")]
               /\ walletLock' = NoTask
               /\ clientLock' = NoTask
               /\ pc' = [pc EXCEPT ![t] = "done"]
               /\ UNCHANGED <<loc, disk>>
    /\ UNCHANGED <<calc, op, args, wallet, client, clientsBuilt, persistVars>>

\* the second full_scan_to_index_with_electrum_client(&mut new_wallet, ..)?
\* and  *wallet = new_wallet
full_scan_retry(t) ==
    /\ pc[t] = "full_scan_retry"
    /\ walletLock = t
    /\ \E serverTip \in 0..MaxTip, network_ok \in BOOLEAN :
         LET e == full_scan_to_index(loc[t].new_wallet, serverTip, network_ok)
             attempt == [ceiling |-> loc[t].ceiling, client |-> client,
                         fresh |-> loc[t].new_wallet = EmptyWallet, outcome |-> e]
         IN IF e = "Ok"
            THEN /\ wallet' = scanned(serverTip)
                 /\ disk' = scanned(serverTip)
                 /\ loc' = [loc EXCEPT ![t].scans = Append(@, attempt),
                                       ![t].res = OkUnit]
                 /\ pc' = [pc EXCEPT ![t] = "full_scan_persist"]
                 /\ UNCHANGED <<result, walletLock, clientLock>>
            ELSE /\ loc' = [loc EXCEPT ![t].scans = Append(@, attempt)]
                 /\ result' = [result EXCEPT ![t] = Err(FromLwkError(e))]
                 /\ walletLock' = NoTask
                 /\ clientLock' = NoTask
                 /\ pc' = [pc EXCEPT ![t] = "done"]
                 /\ UNCHANGED <<wallet, disk>>
    /\ UNCHANGED <<calc, op, args, client, clientsBuilt, persistVars>>

\* self.persister.set_last_scanned_derivation_index(last_derivation_index)?
full_scan_persist(t) ==
    /\ pc[t] = "full_scan_persist"
    /\ lastScanned' = checkpoint(loc[t].last, lastIndex)
    /\ pc' = [pc EXCEPT ![t] = "full_scan_return"]
    /\ UNCHANGED <<calc, op, args, loc, result, walletLock, clientLock, chainVars,
                   lastIndex, reserved>>

\* res is returned, both guards are dropped
full_scan_return(t) ==
    /\ pc[t] = "full_scan_return"
    /\ result' = [result EXCEPT ![t] = loc[t].res]
    /\ walletLock' = NoTask
    /\ clientLock' = NoTask
    /\ pc' = [pc EXCEPT ![t] = "done"]
    /\ UNCHANGED <<calc, op, args, loc, chainVars, persistVars>>

\* ------------------------------------------------------------------ Next
\* Address issuance and scans: both callers ask for addresses and tips while
\* the second also runs full scans, in every interleaving.
\* (concurrent callers begin only while every task can still derive an index
\* without the persisted index passing MaxIndex)
IndexRoom == lastIndex = None \/ lastIndex + Cardinality(Tasks) <= MaxIndex

Next ==
    \/ \E t \in Tasks : IndexRoom /\ call_next_unused_address(t)
    \/ \E t \in Tasks : call_tip(t)
    \/ \E t \in Tasks \ Builders : call_full_scan(t)
    \/ \E t \in Tasks : tip_lock(t)
    \/ \E t \in Tasks : tip(t)
    \/ \E t \in Tasks : next_unused_address_reserved(t)
    \/ \E t \in Tasks : next_unused_address_next_index(t)
    \/ \E t \in Tasks : next_unused_address_lock(t)
    \/ \E t \in Tasks : next_unused_address_address(t)
    \/ \E t \in Tasks : next_unused_address_persist(t)
    \/ \E t \in Tasks : reserve_address(t)
    \/ \E t \in Tasks : full_scan_client_lock(t)
    \/ \E t \in Tasks : full_scan_client(t)
    \/ \E t \in Tasks : full_scan_index(t)
    \/ \E t \in Tasks : full_scan_wallet_lock(t)
    \/ \E t \in Tasks : full_scan_scan(t)
    \/ \E t \in Tasks : full_scan_recreate(t)
    \/ \E t \in Tasks : full_scan_retry(t)
    \/ \E t \in Tasks : full_scan_persist(t)
    \/ \E t \in Tasks : full_scan_return(t)
    \/ \E t \in Tasks : return(t)

Spec == Init /\ [][Next]_vars

\* Transaction building: the builder builds transactions while the other
\* caller runs full scans.
NextTx ==
    \/ \E t \in Builders : call_build_tx(t)
    \/ \E t \in Builders : call_build_drain_tx(t)
    \/ \E t \in Builders : call_build_tx_or_drain_tx(t)
    \/ \E t \in Tasks \ Builders : call_full_scan(t)
    \/ \E t \in Tasks : build_tx_lock(t)
    \/ \E t \in Tasks : build_tx(t)
    \/ \E t \in Tasks : build_drain_tx_lock(t)
    \/ \E t \in Tasks : build_drain_tx(t)
    \/ \E t \in Tasks : full_scan_client_lock(t)
    \/ \E t \in Tasks : full_scan_client(t)
    \/ \E t \in Tasks : full_scan_index(t)
    \/ \E t \in Tasks : full_scan_wallet_lock(t)
    \/ \E t \in Tasks : full_scan_scan(t)
    \/ \E t \in Tasks : full_scan_recreate(t)
    \/ \E t \in Tasks : full_scan_retry(t)
    \/ \E t \in Tasks : full_scan_persist(t)
    \/ \E t \in Tasks : full_scan_return(t)
    \/ \E t \in Tasks : return(t)

SpecTx == Init /\ [][NextTx]_vars

\* Sequential use of address issuance and scans: a call begins only when no
\* other call is in progress (the other caller is idle, or still holds the
\* value its last call returned).
NoCallInProgress == \A u \in Tasks : pc[u] \in {"idle", "done"}

NextSeq ==
    \/ \E t \in Tasks : NoCallInProgress /\ call_next_unused_address(t)
    \/ \E t \in Tasks : NoCallInProgress /\ call_tip(t)
    \/ \E t \in Tasks \ Builders : NoCallInProgress /\ call_full_scan(t)
    \/ \E t \in Tasks : tip_lock(t)
    \/ \E t \in Tasks : tip(t)
    \/ \E t \in Tasks : next_unused_address_reserved(t)
    \/ \E t \in Tasks : next_unused_address_next_index(t)
    \/ \E t \in Tasks : next_unused_address_lock(t)
    \/ \E t \in Tasks : next_unused_address_address(t)
    \/ \E t \in Tasks : next_unused_address_persist(t)
    \/ \E t \in Tasks : reserve_address(t)
    \/ \E t \in Tasks : full_scan_client_lock(t)
    \/ \E t \in Tasks : full_scan_client(t)
    \/ \E t \in Tasks : full_scan_index(t)
    \/ \E t \in Tasks : full_scan_wallet_lock(t)
    \/ \E t \in Tasks : full_scan_scan(t)
    \/ \E t \in Tasks : full_scan_recreate(t)
    \/ \E t \in Tasks : full_scan_retry(t)
    \/ \E t \in Tasks : full_scan_persist(t)
    \/ \E t \in Tasks : full_scan_return(t)
    \/ \E t \in Tasks : return(t)

SpecSeq == Init /\ [][NextSeq]_vars

\* ---------------------------------------------------------- transactions
\* transactions() and transactions_by_tx_id(), which begins by awaiting
\* transactions()
call_transactions(t) ==
    /\ pc[t] = "idle"
    /\ \E o \in {"transactions", "transactions_by_tx_id"} :
          op' = [op EXCEPT ![t] = o]
    /\ pc' = [pc EXCEPT ![t] = "transactions_lock"]
    /\ UNCHANGED <<calc, args, loc, result, walletLock, clientLock, chainVars, persistVars>>

transactions_lock_unguarded(t) ==
    /\ pc[t] = "transactions_lock"
    /\ walletLock' = t
    /\ pc' = [pc EXCEPT ![t] = "transactions"]
    /\ UNCHANGED <<calc, op, args, loc, result, clientLock, chainVars, persistVars>>

\* let wallet = self.wallet.lock().await;
transactions_lock(t) ==
    /\ pc[t] = "transactions_lock"
    /\ walletLock = NoTask
    /\ walletLock' = t
    /\ pc' = [pc EXCEPT ![t] = "transactions"]
    /\ UNCHANGED <<calc, op, args, loc, result, clientLock, chainVars, persistVars>>

\* wallet.transactions().map_err(..Generic..), the guard dropped on return
transactions(t) ==
    /\ pc[t] = "transactions"
    /\ walletLock = t
    /\ walletLock' = NoTask
    /\ \E listed \in BOOLEAN :
         IF listed
         THEN /\ loc' = [loc EXCEPT ![t].history = wallet]
              /\ result' = [result EXCEPT ![t] = OkUnit]
         ELSE /\ result' = [result EXCEPT ![t] = Err("Generic")]
              /\ UNCHANGED loc
    /\ pc' = [pc EXCEPT ![t] = "done"]
    /\ UNCHANGED <<calc, op, args, clientLock, chainVars, persistVars>>

\* ----------------------------------------------------------- cancellation
\* the .await points of the operations: a task waiting for a lock
Suspended ==
    {"build_tx_lock", "build_drain_tx_lock", "tip_lock", "address_lock",
     "transactions_lock", "full_scan_client_lock", "full_scan_wallet_lock"}


cancel_keeps_guards(t) ==
    /\ pc[t] \in Suspended
    /\ pc' = [pc EXCEPT ![t] = "done"]
    /\ result' = [result EXCEPT ![t] = Cancelled]
    /\ UNCHANGED <<calc, op, args, loc, walletLock, clientLock, chainVars, persistVars>>

\* the caller drops the future of a pending call: the guards the call holds
\* (the client guard of a full_scan waiting for the wallet) are dropped
cancel(t) ==
    /\ pc[t] \in Suspended
    /\ pc' = [pc EXCEPT ![t] = "done"]
    /\ result' = [result EXCEPT ![t] = Cancelled]
    /\ clientLock' = IF clientLock = t THEN NoTask ELSE clientLock
    /\ walletLock' = IF walletLock = t THEN NoTask ELSE walletLock
    /\ UNCHANGED <<calc, op, args, loc, chainVars, persistVars>>

\* Lock discipline: both callers scan and list transactions, the first also
\* builds transactions (build_tx, then build_drain_tx as its fallback), and
\* any pending call may be abandoned.
NextLock ==
    \/ \E t \in Tasks : call_full_scan(t)
    \/ \E t \in Tasks : call_transactions(t)
    \/ \E t \in Builders : call_build_tx_or_drain_tx(t)
    \/ \E t \in Tasks : transactions_lock(t)
    \/ \E t \in Tasks : transactions(t)
    \/ \E t \in Tasks : build_tx_lock(t)
    \/ \E t \in Tasks : build_tx(t)
    \/ \E t \in Tasks : build_drain_tx_lock(t)
    \/ \E t \in Tasks : build_drain_tx(t)
    \/ \E t \in Tasks : full_scan_client_lock(t)
    \/ \E t \in Tasks : full_scan_client(t)
    \/ \E t \in Tasks : full_scan_index(t)
    \/ \E t \in Tasks : full_scan_wallet_lock(t)
    \/ \E t \in Tasks : full_scan_scan(t)
    \/ \E t \in Tasks : full_scan_recreate(t)
    \/ \E t \in Tasks : full_scan_retry(t)
    \/ \E t \in Tasks : full_scan_persist(t)
    \/ \E t \in Tasks : full_scan_return(t)
    \/ \E t \in Tasks : cancel(t)
    \/ \E t \in Tasks : return(t)

SpecLock == Init /\ [][NextLock]_vars

\* Scheduling: tokio's Mutex hands the lock to waiters in FIFO order, so a
\* task waiting at lock().await gets the lock once it has been released
\* often enough (strong fairness); the code between two .await points is
\* synchronous, every network round trip has a timeout, so a task inside a
\* section completes it (weak fairness).  Starting a call, abandoning one
\* and collecting a result are the caller's choice and carry no fairness.
lock_acquire(t) ==
    \/ build_tx_lock(t)
    \/ build_drain_tx_lock(t)
    \/ transactions_lock(t)
    \/ full_scan_client_lock(t)
    \/ full_scan_wallet_lock(t)

section_step(t) ==
    \/ build_tx(t)
    \/ build_drain_tx(t)
    \/ transactions(t)
    \/ full_scan_client(t)
    \/ full_scan_index(t)
    \/ full_scan_scan(t)
    \/ full_scan_recreate(t)
    \/ full_scan_retry(t)
    \/ full_scan_persist(t)
    \/ full_scan_return(t)

SpecLockFair ==
    /\ Init
    /\ [][NextLock]_vars
    /\ \A t \in Tasks : SF_vars(lock_acquire(t))
    /\ \A t \in Tasks : WF_vars(section_step(t))

\* Every operation at once: each caller makes one call, a full scan, a tip,
\* an address or a transaction list, the first possibly a transaction build,
\* in every interleaving of the two calls; no call is abandoned.
NextOps ==
    \/ \E t \in Tasks : call_full_scan(t)
    \/ \E t \in Tasks : call_transactions(t)
    \/ \E t \in Tasks : call_tip(t)
    \/ \E t \in Tasks : IndexRoom /\ call_next_unused_address(t)
    \/ \E t \in Builders : call_build_tx(t)
    \/ \E t \in Builders : call_build_drain_tx(t)
    \/ \E t \in Builders : call_build_tx_or_drain_tx(t)
    \/ \E t \in Tasks : tip_lock(t)
    \/ \E t \in Tasks : tip(t)
    \/ \E t \in Tasks : next_unused_address_reserved(t)
    \/ \E t \in Tasks : next_unused_address_next_index(t)
    \/ \E t \in Tasks : next_unused_address_lock(t)
    \/ \E t \in Tasks : next_unused_address_address(t)
    \/ \E t \in Tasks : next_unused_address_persist(t)
    \/ \E t \in Tasks : reserve_address(t)
    \/ \E t \in Tasks : transactions_lock(t)
    \/ \E t \in Tasks : transactions(t)
    \/ \E t \in Tasks : build_tx_lock(t)
    \/ \E t \in Tasks : build_tx(t)
    \/ \E t \in Tasks : build_drain_tx_lock(t)
    \/ \E t \in Tasks : build_drain_tx(t)
    \/ \E t \in Tasks : full_scan_client_lock(t)
    \/ \E t \in Tasks : full_scan_client(t)
    \/ \E t \in Tasks : full_scan_index(t)
    \/ \E t \in Tasks : full_scan_wallet_lock(t)
    \/ \E t \in Tasks : full_scan_scan(t)
    \/ \E t \in Tasks : full_scan_recreate(t)
    \/ \E t \in Tasks : full_scan_retry(t)
    \/ \E t \in Tasks : full_scan_persist(t)
    \/ \E t \in Tasks : full_scan_return(t)

SpecOps == Init /\ [][NextOps]_vars

\* one step of a call in progress: a lock handed to it, or the code up to
\* its next .await point or its return
call_step(t) ==
    \/ lock_acquire(t)
    \/ section_step(t)
    \/ tip_lock(t)
    \/ tip(t)
    \/ next_unused_address_reserved(t)
    \/ next_unused_address_next_index(t)
    \/ next_unused_address_lock(t)
    \/ next_unused_address_address(t)
    \/ next_unused_address_persist(t)
    \/ reserve_address(t)

InitCeil ==
    /\ ProgramInit
    /\ \E o \in {[some |-> FALSE, value |-> 0]}
                \cup {[some |-> TRUE, value |-> v] : v \in 0..MaxLowIndex}
                \cup {[some |-> TRUE, value |-> 0 - k] : k \in 1..NearMax} :
          calc = [fn |-> "index_with_buffer", persisted |-> o, applied |-> FALSE,
                  last |-> 0, panic |-> FALSE, ceiling |-> 0]

\* wallet.rs:384-388 on the persisted index
apply_index_with_buffer ==
    /\ calc.fn = "index_with_buffer"
    /\ ~calc.applied
    /\ \E overflow_checks \in BOOLEAN :
         LET last_derivation_index == unwrap_or_default(calc.persisted)
             c == index_with_buffer(last_derivation_index, overflow_checks)
         IN calc' = [calc EXCEPT !.applied = TRUE, !.last = last_derivation_index,
                                 !.panic = c.panic, !.ceiling = c.value]
    /\ UNCHANGED <<taskVars, walletLock, clientLock, chainVars, persistVars>>

SpecCeil == InitCeil /\ [][apply_index_with_buffer]_vars

\* =================================================== swap recovery handlers
\* resolve(record, matchedTxs, tip) -> record', one handler per swap kind.
\* A matched transaction is given by its height (HistoryTxId.height): None
\* when no transaction matches the script, 0 when the match is in the
\* mempool, the block height when it is confirmed.  A receive or send swap
\* has one leg, a chain swap two (source chain, destination chain); a leg's
\* matches are [claim, refund, lockup].
SwapKinds == {"receive", "send", "chain_receive", "chain_send"}
ChainKinds == {"chain_receive", "chain_send"}
SwapStates ==
    {"Created", "WaitingConfirmation", "Pending", "Complete", "Refundable",
     "Refunded", "Expired", "Failed"}
TerminalStates == {"Complete", "Refunded", "Expired", "Failed"}

legs_of(kind) == IF kind \in ChainKinds THEN 2 ELSE 1

observed(h) == h # None
confirmed(h) == h > 0

claim_at_least_as_mature(claim, refund) ==
    confirmed(claim) /\ (~confirmed(refund) \/ claim <= refund)

\* the claim has strictly greater confirmation-height maturity than the
\* refund: it is confirmed, and the refund is not or is in a later block
claim_more_mature(claim, refund) ==
    confirmed(claim) /\ (~confirmed(refund) \/ claim < refund)

leg_state_timeout_first(leg, tip_height, timeout) ==
    IF tip_height > timeout /\ ~observed(leg.refund) THEN "Refundable"
    ELSE IF confirmed(leg.claim) THEN "Complete"
    ELSE IF observed(leg.claim) THEN "Pending"
    ELSE IF observed(leg.refund) THEN "Refunded"
    ELSE IF observed(leg.lockup)
    THEN IF confirmed(leg.lockup) THEN "Pending" ELSE "WaitingConfirmation"
    ELSE "Unchanged"

leg_state_refund_confirmed_only(leg, tip_height, timeout) ==
    IF confirmed(leg.claim) THEN "Complete"
    ELSE IF observed(leg.claim) THEN "Pending"
    ELSE IF confirmed(leg.refund) THEN "Refunded"
    ELSE IF tip_height > timeout THEN "Refundable"
    ELSE IF observed(leg.lockup)
    THEN IF confirmed(leg.lockup) THEN "Pending" ELSE "WaitingConfirmation"
    ELSE "Unchanged"

leg_state_timeout_inclusive(leg, tip_height, timeout) ==
    IF confirmed(leg.claim) THEN "Complete"
    ELSE IF observed(leg.claim) THEN "Pending"
    ELSE IF observed(leg.refund) THEN "Refunded"
    ELSE IF tip_height >= timeout THEN "Refundable"
    ELSE IF observed(leg.lockup)
    THEN IF confirmed(leg.lockup) THEN "Pending" ELSE "WaitingConfirmation"
    ELSE "Unchanged"

\* steps 1-4 of the handlers on one leg; "Unchanged" when no step applies
\* (step 5)
leg_state(leg, tip_height, timeout) ==
    IF confirmed(leg.claim) THEN "Complete"
    ELSE IF observed(leg.claim) THEN "Pending"
    ELSE IF observed(leg.refund) THEN "Refunded"
    ELSE IF tip_height > timeout THEN "Refundable"
    ELSE IF observed(leg.lockup)
    THEN IF confirmed(leg.lockup) THEN "Pending" ELSE "WaitingConfirmation"
    ELSE "Unchanged"

\* how far a leg has come
progress(s) ==
    CASE s = "Unchanged" -> 0
      [] s = "WaitingConfirmation" -> 1
      [] s = "Refundable" -> 2
      [] s = "Pending" -> 3
      [] OTHER -> 4

combine_any_complete(a, b) ==
    IF a = b THEN a
    ELSE IF a = "Complete" \/ b = "Complete" THEN "Complete"
    ELSE IF progress(a) >= progress(b) THEN a ELSE b

\* the pairwise combination of the two legs of a chain swap: Complete only
\* when both legs are; one leg complete and the other not yields Pending;
\* otherwise the state of the leg that has come further
combine(a, b) ==
    IF a = b THEN a
    ELSE IF a = "Complete" \/ b = "Complete" THEN "Pending"
    ELSE IF progress(a) >= progress(b) THEN a ELSE b

\* the heights of the transactions of one role that match the swap
matched_heights(role, matched) ==
    {matched[i][role] : i \in {j \in 1..Len(matched) : observed(matched[j][role])}}

\* the matches with the refunds left out (the claim took precedence)
without_refund(matched) ==
    [i \in 1..Len(matched) |-> [matched[i] EXCEPT !.refund = None]]

\* steps 1-4 on every leg, combined
legs_state(kind, matched, tip_height, timeout) ==
    IF legs_of(kind) = 1
    THEN leg_state(matched[1], tip_height, timeout)
    ELSE combine(leg_state(matched[1], tip_height, timeout),
                 leg_state(matched[2], tip_height, timeout))

\* the tie-break when both a claim and a refund match the swap, then the
\* steps
swap_state(kind, matched, tip_height, timeout) ==
    LET claims == matched_heights("claim", matched)
        refunds == matched_heights("refund", matched)
    IN IF claims # {} /\ refunds # {}
       THEN IF \A c \in claims, r \in refunds : claim_more_mature(c, r)
            THEN legs_state(kind, without_refund(matched), tip_height, timeout)
            ELSE "Failed"
       ELSE legs_state(kind, matched, tip_height, timeout)

\* txids of the matched transactions of one role, one per leg that has one
matched_txids(role, matched) ==
    {<<role, i>> : i \in {j \in 1..Len(matched) : observed(matched[j][role])}}

recomputed_without_refund_txid(record, matched, tip_height) ==
    LET s == swap_state(record.kind, matched, tip_height, record.timeout)
    IN IF s = "Unchanged" THEN record
       ELSE [record EXCEPT
               !.state = s,
               !.reason = IF s = "Failed" THEN "ambiguous-resolution" ELSE "",
               !.claim_txid = IF s = "Complete"
                              THEN matched_txids("claim", matched) ELSE @]

\* the record steps 1-4 give, whatever its state was
recomputed(record, matched, tip_height) ==
    LET s == swap_state(record.kind, matched, tip_height, record.timeout)
    IN IF s = "Unchanged" THEN record
       ELSE [record EXCEPT
               !.state = s,
               !.reason = IF s = "Failed" THEN "ambiguous-resolution" ELSE "",
               !.claim_txid = IF s = "Complete"
                              THEN matched_txids("claim", matched) ELSE @,
               !.refund_txid = IF s = "Refunded"
                               THEN matched_txids("refund", matched) ELSE @]

resolve_without_short_circuit(record, matched, tip_height) ==
    recomputed(record, matched, tip_height)

resolve_promoting(record, matched, tip_height) ==
    IF record.state \in TerminalStates THEN record
    ELSE LET r == recomputed(record, matched, tip_height)
         IN IF record.state = "Pending" /\ r.state = "Pending"
            THEN [r EXCEPT !.state = "Complete"]
            ELSE r

\* a terminal record is returned as it is; otherwise the state the matches
\* and the tip determine, with the claim txid recorded on Complete and the
\* refund txid on Refunded
resolve(record, matched, tip_height) ==
    IF record.state \in TerminalStates THEN record
    ELSE recomputed(record, matched, tip_height)

LegMatches ==
    [claim : {None} \cup 0..MaxHeight, refund : {None} \cup 0..MaxHeight,
     lockup : {None, 0, 1}]

MatchedTxs(kind) ==
    IF legs_of(kind) = 1 THEN {<<l>> : l \in LegMatches}
    ELSE {<<l, m>> : l \in LegMatches, m \in LegMatches}

\* a persisted swap record; a Failed one carries a reason
SwapRecords ==
    {[kind |-> k, state |-> s, timeout |-> SwapTimeout,
      reason |-> IF s = "Failed" THEN "failed" ELSE "",
      claim_txid |-> {}, refund_txid |-> {}] : k \in SwapKinds, s \in SwapStates}

InitResolve ==
    /\ ProgramInit
    /\ \E r \in SwapRecords, tip_height \in 0..MaxSwapTip :
         \E m \in MatchedTxs(r.kind) :
            calc = [fn |-> "resolve", record |-> r, matched |-> m, tip |-> tip_height,
                    applied |-> 0, once |-> r, twice |-> r]

\* a scan's dispatch of the swap to its handler
apply_resolve ==
    /\ calc.fn = "resolve"
    /\ calc.applied = 0
    /\ calc' = [calc EXCEPT !.applied = 1,
                            !.once = resolve(calc.record, calc.matched, calc.tip)]
    /\ UNCHANGED <<taskVars, walletLock, clientLock, chainVars, persistVars>>

\* the next scan, with the same matches and tip, on the record just written
apply_resolve_again ==
    /\ calc.fn = "resolve"
    /\ calc.applied = 1
    /\ calc' = [calc EXCEPT !.applied = 2,
                            !.twice = resolve(calc.once, calc.matched, calc.tip)]
    /\ UNCHANGED <<taskVars, walletLock, clientLock, chainVars, persistVars>>

SpecResolve == InitResolve /\ [][apply_resolve \/ apply_resolve_again]_vars

\* ------------------------------------------ resolve over successive scans
\* The scenario of the handlers' section: a swap created with timeout height
\* 100 and no matching transaction, scanned at rising tips; from height 151
\* on a scan may find the confirmed refund transaction of block 151 on the
\* swap's (source) leg, and scans after that may match anything.
MaxScans == 4
ScenarioTimeout == 100
ScenarioRefundHeight == 151
NoMatch == [claim |-> None, refund |-> None, lockup |-> None]
NoMatches(kind) == IF legs_of(kind) = 1 THEN <<NoMatch>> ELSE <<NoMatch, NoMatch>>
RefundMatches(kind) ==
    LET found == [NoMatch EXCEPT !.refund = ScenarioRefundHeight]
    IN IF legs_of(kind) = 1 THEN <<found>> ELSE <<found, NoMatch>>

\* what a scan after the refund may match on the swap's first leg
LaterMatches(kind) ==
    LET legs == [claim : {None, 0, 150, 152},
                 refund : {None, ScenarioRefundHeight},
                 lockup : {None, 50}]
    IN IF legs_of(kind) = 1 THEN {<<l>> : l \in legs}
       ELSE {<<l, NoMatch>> : l \in legs}

\* the matches a scan at a tip can come up with
ScanMatches(record, tip_height) ==
    IF tip_height < ScenarioRefundHeight THEN {NoMatches(record.kind)}
    ELSE IF record.state = "Refunded" THEN LaterMatches(record.kind)
    ELSE {NoMatches(record.kind), RefundMatches(record.kind)}

InitScenario ==
    /\ ProgramInit
    /\ \E k \in SwapKinds :
         calc = [fn |-> "scenario",
                 record |-> [kind |-> k, state |-> "Created",
                             timeout |-> ScenarioTimeout, reason |-> "",
                             claim_txid |-> {}, refund_txid |-> {}],
                 matched |-> NoMatches(k), tips |-> <<>>, found |-> FALSE]

\* one scan: the tip does not go back, the swap is resolved against what the
\* scan matched and the record is written back
scan_resolve ==
    /\ calc.fn = "scenario"
    /\ Len(calc.tips) < MaxScans
    /\ \E tip_height \in {50, 100, 150, 151, 152} :
         /\ calc.tips # <<>> => tip_height >= calc.tips[Len(calc.tips)]
         /\ \E m \in ScanMatches(calc.record, tip_height) :
              calc' = [calc EXCEPT
                         !.record = resolve(calc.record, m, tip_height),
                         !.matched = m,
                         !.tips = Append(@, tip_height),
                         !.found = @ \/ m = RefundMatches(calc.record.kind)]
    /\ UNCHANGED <<taskVars, walletLock, clientLock, chainVars, persistVars>>

SpecScenario == InitScenario /\ [][scan_resolve]_vars

\* ==================================================== message sign / verify
\* sign_message and check_message over symbolic cryptography.  A hash is the
\* term of what was hashed; the signer's recoverable signature is 65 bytes,
\* the header byte 31 + recovery id and the compact signature, which is the
\* term of the signing key, the digest and the nonce.  ECDSA signatures are
\* not unique: every nonce gives a valid signature of the same digest under
\* the same key, each with its own recovery id, which depends on the key,
\* the digest and the nonce, and the signing key's public key is recovered
\* from each of them.  Key recovery over another digest or with the other
\* of the recovery ids 0 and 1 gives an unrelated key; with recovery id 2
\* or 3 it fails.
LN_MESSAGE_PREFIX == "Lightning Signed Message:"

Keys == {"k1", "k2"}
Messages == {"Hello, Liquid!", "Wrong message"}

\* a hash is the term of what was hashed.
\* wallet.rs:422-426, and the same digest in message_signing::recover_pk
double_hashed_msg(prefix, message) ==
    [hash |-> "sha256", of |-> [hash |-> "sha256", of |-> <<prefix, message>>]]

\* the nonces a signer may sign with
Nonces == {"n1", "n2"}

\* the recovery id of the signature of a digest by a key under a nonce: 0
\* or 1, changing with each of the three
recovery_id(key, digest, nonce) ==
    ((IF key = "k1" THEN 0 ELSE 1)
     + (IF digest = double_hashed_msg(LN_MESSAGE_PREFIX, "Hello, Liquid!") THEN 0 ELSE 1)
     + (IF nonce = "n1" THEN 0 ELSE 1)) % 2

\* 65 bytes: header and compact signature
sig_bytes(len, header, key, digest, nonce) ==
    [len |-> len, header |-> header, key |-> key, digest |-> digest,
     nonce |-> nonce]

ZeroBytes(len) == sig_bytes(len, 0, "zero", double_hashed_msg("", ""), "n1")

\* Signer::sign_ecdsa_recoverable: header byte 31 + recovery id, then the
\* compact signature; nonce is the nonce the signer signs with
sign_ecdsa_recoverable(key, digest, nonce) ==
    sig_bytes(65, 31 + recovery_id(key, digest, nonce), key, digest, nonce)

\* zbase32 text of bytes, and text that is not zbase32
encode_full_bytes(bytes) == [zbase32 |-> TRUE, bytes |-> bytes]
NotZbase32 == [zbase32 |-> FALSE, bytes |-> ZeroBytes(0)]
decode_full_bytes(text) ==
    IF text.zbase32 THEN [ok |-> TRUE, bytes |-> text.bytes]
    ELSE [ok |-> FALSE, bytes |-> ZeroBytes(0)]

\* text that is no public key, and PublicKey::from_str on the text that
\* PublicKey::to_string gives
MalformedPubkey == [hex |-> FALSE, key |-> "zero"]
from_str(text) ==
    IF text.hex THEN [ok |-> TRUE, key |-> text.key]
    ELSE [ok |-> FALSE, key |-> "zero"]

\* wallet.rs:349-351
pubkey(signer) == [hex |-> TRUE, key |-> signer]

sign_message_without_prefix(signer, message, nonce) ==
    encode_full_bytes(
        sign_ecdsa_recoverable(signer, double_hashed_msg("", message), nonce))

\* wallet.rs:420-430, the signer succeeding
sign_message(signer, message, nonce) ==
    encode_full_bytes(
        sign_ecdsa_recoverable(signer, double_hashed_msg(LN_MESSAGE_PREFIX, message),
                               nonce))

\* message_signing::recover_pk: zbase32 decoding, the 65 bytes split into
\* recovery id and compact signature, key recovery over the digest
recover_pk(message, signature) ==
    LET decoded == decode_full_bytes(signature)
        bytes == decoded.bytes
        failed == [ok |-> FALSE, key |-> "zero"]
    IN IF ~decoded.ok THEN failed
       ELSE IF bytes.len # 65 THEN failed
       ELSE IF bytes.header - 31 \notin 0..3 THEN failed
       ELSE IF bytes.key = "zero" THEN failed
       ELSE IF bytes.header - 31 \in 2..3 THEN failed
       ELSE IF /\ bytes.digest = double_hashed_msg(LN_MESSAGE_PREFIX, message)
               /\ bytes.header - 31 =
                      recovery_id(bytes.key, bytes.digest, bytes.nonce)
       THEN [ok |-> TRUE, key |-> bytes.key]
       ELSE [ok |-> TRUE, key |-> "unrelated"]

\* message_signing::verify, called at wallet.rs:434
verify(message, signature, pk) ==
    LET recovered == recover_pk(message, signature)
    IN recovered.ok /\ recovered.key = pk

check_message_propagating(message, pubkey_text, signature) ==
    LET pk == from_str(pubkey_text)
    IN IF ~pk.ok \/ ~recover_pk(message, signature).ok
       THEN [status |-> "Err", value |-> FALSE]
       ELSE [status |-> "Ok", value |-> verify(message, signature, pk.key)]

\* wallet.rs:432-435
check_message(message, pubkey_text, signature) ==
    LET pk == from_str(pubkey_text)
    IN IF ~pk.ok THEN [status |-> "Err", value |-> FALSE]
       ELSE [status |-> "Ok", value |-> verify(message, signature, pk.key)]

\* signatures of every key over every message under every nonce, with
\* each of the four recovery ids; 65 zero bytes; 64 bytes; text that is not
\* zbase32
SignatureTexts ==
    {encode_full_bytes(b) :
        b \in {sig_bytes(65, 31 + rid, k, double_hashed_msg(LN_MESSAGE_PREFIX, m), n) :
                 rid \in 0..3, k \in Keys, m \in Messages, n \in Nonces}
              \cup {ZeroBytes(65), ZeroBytes(64)}}
    \cup {NotZbase32}

InitMessage ==
    /\ ProgramInit
    /\ \E k \in Keys, m \in Messages :
         calc = [fn |-> "message", signer |-> k, message |-> m, step |-> 0,
                 signature |-> NotZbase32,
                 checked |-> [message |-> m, pubkey |-> MalformedPubkey,
                              signature |-> NotZbase32],
                 verdict |-> [status |-> "none", value |-> FALSE]]

\* sign_message(message) on the wallet of the signer, which signs with a
\* nonce of its choice; a signer that fails ends the call with its error
\* (wallet.rs:428)
call_sign_message ==
    /\ calc.fn = "message"
    /\ calc.step = 0
    /\ \E signed \in BOOLEAN, nonce \in Nonces :
         calc' = IF signed
                 THEN [calc EXCEPT
                         !.step = 1,
                         !.signature = sign_message(calc.signer, calc.message, nonce)]
                 ELSE [calc EXCEPT !.step = 3]
    /\ UNCHANGED <<taskVars, walletLock, clientLock, chainVars, persistVars>>

\* check_message of a message, a public key text and a signature text: the
\* ones of the signing, or others
call_check_message ==
    /\ calc.fn = "message"
    /\ calc.step = 1
    /\ \E m \in Messages, p \in {pubkey(k) : k \in Keys} \cup {MalformedPubkey},
          s \in SignatureTexts \cup {calc.signature} :
         calc' = [calc EXCEPT
                    !.step = 2,
                    !.checked = [message |-> m, pubkey |-> p, signature |-> s],
                    !.verdict = check_message(m, p, s)]
    /\ UNCHANGED <<taskVars, walletLock, clientLock, chainVars, persistVars>>

SpecMessage == InitMessage /\ [][call_sign_message \/ call_check_message]_vars

\* ================================================= wire payment error codec
\* bridge.io.rs: a wire payment error is a tag (i32) and a union of payload
\* structs, each a err pointer, Refunded also a refund_tx_id pointer.  The
\* union is modelled by its two pointer slots; nil is the slot never written.
TagSlack == 2
WireTags == (0 - 1 - TagSlack)..(12 + TagSlack) \cup {MaxI32, 0 - MaxI32 - 1}

\* a string pointer: nil, or the bytes it points to
NilPtr == [nil |-> TRUE, bytes |-> ""]

\* what the foreign side can hand over: the slots a tag's member has are
\* written
WireErrors ==
    LET ptrs == {NilPtr} \cup {[nil |-> FALSE, bytes |-> b] : b \in {"insufficient", "txid"}}
    IN {w \in [tag : WireTags, kind : [err : ptrs, refund_tx_id : ptrs]] :
          /\ w.tag \in {2, 7, 10, 11, 12} => ~w.kind.err.nil
          /\ w.tag = 10 => ~w.kind.refund_tx_id.nil}

\* bridge.io.rs:314-321
new_with_null_ptr == [tag |-> 0 - 1, kind |-> [err |-> NilPtr, refund_tx_id |-> NilPtr]]

PaymentError(variant, fields) == [variant |-> variant, fields |-> fields]
Unreachable == PaymentError("unreachable!", {})

cst_decode_shifted(w) ==
    CASE w.tag = 0 -> PaymentError("AlreadyClaimed", {})
      [] w.tag = 1 -> PaymentError("AmountOutOfRange", {})
      [] w.tag = 2 ->
           PaymentError("Generic", {<<"err", w.kind.err.bytes>>})
      [] w.tag = 3 -> PaymentError("InsufficientFunds", {})
      [] w.tag = 4 -> PaymentError("InvalidOrExpiredFees", {})
      [] w.tag = 5 -> PaymentError("InvalidInvoice", {})
      [] w.tag = 6 -> PaymentError("InvalidPreimage", {})
      [] w.tag = 7 ->
           PaymentError("LwkError", {<<"err", w.kind.err.bytes>>})
      [] w.tag = 8 -> PaymentError("PairsNotFound", {})
      [] w.tag = 9 -> PaymentError("PersistError", {})
      [] w.tag = 10 ->
           PaymentError("Refunded",
                        {<<"err", w.kind.err.bytes>>,
                         <<"refund_tx_id", w.kind.refund_tx_id.bytes>>})
      [] w.tag = 11 ->
           PaymentError("SendError", {<<"err", w.kind.err.bytes>>})
      [] w.tag = 12 ->
           PaymentError("SignerError", {<<"err", w.kind.err.bytes>>})
      [] OTHER -> PaymentError("Generic", {<<"err", "">>})

\* bridge.io.rs:149-195
cst_decode(w) ==
    CASE w.tag = 0 -> PaymentError("AlreadyClaimed", {})
      [] w.tag = 1 -> PaymentError("AmountOutOfRange", {})
      [] w.tag = 2 ->
           PaymentError("Generic", {<<"err", w.kind.err.bytes>>})
      [] w.tag = 3 -> PaymentError("InvalidOrExpiredFees", {})
      [] w.tag = 4 -> PaymentError("InsufficientFunds", {})
      [] w.tag = 5 -> PaymentError("InvalidInvoice", {})
      [] w.tag = 6 -> PaymentError("InvalidPreimage", {})
      [] w.tag = 7 ->
           PaymentError("LwkError", {<<"err", w.kind.err.bytes>>})
      [] w.tag = 8 -> PaymentError("PairsNotFound", {})
      [] w.tag = 9 -> PaymentError("PersistError", {})
      [] w.tag = 10 ->
           PaymentError("Refunded",
                        {<<"err", w.kind.err.bytes>>,
                         <<"refund_tx_id", w.kind.refund_tx_id.bytes>>})
      [] w.tag = 11 ->
           PaymentError("SendError", {<<"err", w.kind.err.bytes>>})
      [] w.tag = 12 ->
           PaymentError("SignerError", {<<"err", w.kind.err.bytes>>})
      [] OTHER -> Unreachable

InitWire ==
    /\ ProgramInit
    /\ \E w \in WireErrors \cup {new_with_null_ptr} :
         calc = [fn |-> "cst_decode", wire |-> w, decoded |-> FALSE,
                 error |-> Unreachable]

\* the bridge decodes the wire value
apply_cst_decode ==
    /\ calc.fn = "cst_decode"
    /\ ~calc.decoded
    /\ calc' = [calc EXCEPT !.decoded = TRUE, !.error = cst_decode(calc.wire)]
    /\ UNCHANGED <<taskVars, walletLock, clientLock, chainVars, persistVars>>

SpecWire == InitWire /\ [][apply_cst_decode]_vars

\* ================================================ transactions by tx id
\* transactions_by_tx_id on a transaction list: the list of WalletTx, each a
\* txid and a height (None while the transaction is unconfirmed), collected
\* into a HashMap keyed by txid.  The list is what the descriptor wallet
\* hands back; the same txid may be in it more than once, and with and
\* without a height.
MaxListLen == 3
WalletTxs == [txid : {"a", "b"}, height : {None, 1}]

RECURSIVE SeqsUpTo(_, _)
SeqsUpTo(S, n) ==
    IF n = 0 THEN {<<>>}
    ELSE LET shorter == SeqsUpTo(S, n - 1)
         IN shorter \cup {Append(l, x) : l \in {k \in shorter : Len(k) = n - 1}, x \in S}

\* HashMap::insert: the value of a key already there is replaced
insert(map, key, value) ==
    [k \in DOMAIN map \cup {key} |-> IF k = key THEN value ELSE map[k]]

EmptyMap == [k \in {} |-> [txid |-> "a", height |-> None]]

RECURSIVE collect_keeping_first(_, _)
collect_keeping_first(pairs, map) ==
    IF pairs = <<>> THEN map
    ELSE collect_keeping_first(
             Tail(pairs),
             IF Head(pairs)[1] \in DOMAIN map THEN map
             ELSE insert(map, Head(pairs)[1], Head(pairs)[2]))

\* .collect() into a HashMap: the pairs are inserted in list order
RECURSIVE collect(_, _)
collect(pairs, map) ==
    IF pairs = <<>> THEN map
    ELSE collect(Tail(pairs), insert(map, Head(pairs)[1], Head(pairs)[2]))

\* wallet.rs:197-203 on the list transactions() returned
tx_map(list) ==
    collect([i \in 1..Len(list) |-> <<list[i].txid, list[i]>>], EmptyMap)

InitTxMap ==
    /\ ProgramInit
    /\ \E l \in SeqsUpTo(WalletTxs, MaxListLen) :
         calc = [fn |-> "transactions_by_tx_id", list |-> l, status |-> "none",
                 map |-> EmptyMap]

\* transactions_by_tx_id: transactions() fails and the error is returned,
\* or its list is collected
apply_transactions_by_tx_id ==
    /\ calc.fn = "transactions_by_tx_id"
    /\ calc.status = "none"
    /\ \E listed \in BOOLEAN :
         calc' = IF listed
                 THEN [calc EXCEPT !.status = "Ok", !.map = tx_map(calc.list)]
                 ELSE [calc EXCEPT !.status = "Generic"]
    /\ UNCHANGED <<taskVars, walletLock, clientLock, chainVars, persistVars>>

SpecTxMap == InitTxMap /\ [][apply_transactions_by_tx_id]_vars

\* ------------------------------------------ build_drain_tx: enforcement
\* The arithmetic of the ensure_sdk! condition at its 64-bit width.  A word
\* [k, off] stands for the integer k * 2^63 + off, with off small: the i64
\* values are the words from [-1, 0] (i64::MIN) to [1, -1] (i64::MAX), the
\* u64 values those from [0, 0] to [2, -1] (u64::MAX).
word(k, off) == [k |-> k, off |-> off]

\* a < b
less(a, b) == a.k < b.k \/ (a.k = b.k /\ a.off < b.off)

\* *pset_balance_sat * -1  on i64: the product of i64::MIN is 2^63, which
\* panics in a build with overflow checks and wraps to i64::MIN in one
\* without
mul_neg_one(a, overflow_checks) ==
    IF a = word(0 - 1, 0)
    THEN [panic |-> overflow_checks, overflow |-> TRUE, value |-> a]
    ELSE [panic |-> FALSE, overflow |-> FALSE, value |-> word(0 - a.k, 0 - a.off)]

\* (..) as u64: the same 64 bits read as unsigned, a negative value v
\* becoming 2^64 + v
as_u64(a) == IF less(a, word(0, 0)) THEN word(a.k + 2, a.off) ELSE a

\* a - b on u64: below zero the difference panics in a build with overflow
\* checks and wraps modulo 2^64 in one without
sub_u64(a, b, overflow_checks) ==
    IF less(a, b)
    THEN [panic |-> overflow_checks, overflow |-> TRUE,
          value |-> word(a.k - b.k + 2, a.off - b.off)]
    ELSE [panic |-> FALSE, overflow |-> FALSE,
          value |-> word(a.k - b.k, a.off - b.off)]

\* the check comparing the negated balance alone, the fee left out
drain_enforcement_without_fee(balance, pset_fees, enforce_amount_sat, overflow_checks) ==
    LET pset_balance_sat == IF balance.some THEN balance.value ELSE word(0, 0)
        negated == mul_neg_one(pset_balance_sat, overflow_checks)
        amount == as_u64(negated.value)
    IN IF negated.panic
       THEN [panic |-> TRUE, overflow |-> TRUE, amount |-> word(0, 0),
             res |-> "Panicked"]
       ELSE [panic |-> FALSE, overflow |-> negated.overflow, amount |-> amount,
             res |-> IF amount = enforce_amount_sat THEN "Ok" ELSE "Generic"]

\* wallet.rs:261-276 on the details of the built pset: balance is the
\* native-asset entry of the balance map (an Option<i64>, [some, value]),
\* the value is [panic, overflow, amount, res]
drain_enforcement(balance, pset_fees, enforce_amount_sat, overflow_checks) ==
    LET pset_balance_sat == IF balance.some THEN balance.value ELSE word(0, 0)
        negated == mul_neg_one(pset_balance_sat, overflow_checks)
        amount == sub_u64(as_u64(negated.value), pset_fees, overflow_checks)
    IN IF negated.panic \/ amount.panic
       THEN [panic |-> TRUE, overflow |-> TRUE, amount |-> word(0, 0),
             res |-> "Panicked"]
       ELSE [panic |-> FALSE, overflow |-> negated.overflow \/ amount.overflow,
             amount |-> amount.value,
             res |-> IF amount.value = enforce_amount_sat THEN "Ok" ELSE "Generic"]

\* The operands of the expression by their types: every Option<i64>
\* native-asset delta, every u64 fee and every u64 enforce_amount_sat near
\* the edges of the types.  The pset the drain builder has just built gives
\* only a part of them: a negative delta whose magnitude exceeds the fee
\* (drain_builder_finish); the others are what the expression would do on
\* details the builder does not produce.
InitEnforce ==
    /\ ProgramInit
    /\ \E b \in {[some |-> FALSE, value |-> word(0, 0)]}
                \cup {[some |-> TRUE, value |-> word(0 - 1, n)] : n \in 0..MaxSat}
                \cup {[some |-> TRUE, value |-> word(0, n)] : n \in (0 - MaxSat)..MaxSat}
                \cup {[some |-> TRUE, value |-> word(1, 0 - n)] : n \in 1..(MaxSat + 1)},
          f, e \in {word(0, n) : n \in 0..MaxSat}
                   \cup {word(1, n) : n \in (0 - MaxSat)..MaxSat}
                   \cup {word(2, 0 - n) : n \in 1..(MaxSat + 1)} :
          calc = [fn |-> "drain_enforcement", balance |-> b, fee |-> f,
                  enforce |-> e, applied |-> FALSE, panic |-> FALSE,
                  overflow |-> FALSE, amount |-> word(0, 0), res |-> "none"]

\* the enforcement check of one build_drain_tx(.., Some(enforce_amount_sat))
apply_drain_enforcement ==
    /\ calc.fn = "drain_enforcement"
    /\ ~calc.applied
    /\ \E overflow_checks \in BOOLEAN :
         LET c == drain_enforcement(calc.balance, calc.fee, calc.enforce,
                                    overflow_checks)
         IN calc' = [calc EXCEPT !.applied = TRUE, !.panic = c.panic,
                                 !.overflow = c.overflow, !.amount = c.amount,
                                 !.res = c.res]
    /\ UNCHANGED <<taskVars, walletLock, clientLock, chainVars, persistVars>>

SpecEnforce == InitEnforce /\ [][apply_drain_enforcement]_vars

TypeOK ==
    /\ walletLock \in Tasks \cup {NoTask}
    /\ clientLock \in Tasks \cup {NoTask}
    /\ lastIndex \in {None} \cup 0..MaxIndex

\* ================================================================ claims
\* a build_tx_or_drain_tx call that has returned
ReturnedOrDrain(t) == op[t] = "build_tx_or_drain_tx" /\ pc[t] = "done"
\* its build_tx attempt failed with InsufficientFunds
BuildFailedInsufficient(t) ==
    loc[t].bt_res.status = "Err" /\ loc[t].bt_res.err = "InsufficientFunds"
\* a returned call that ran build_drain_tx with enforce_amount_sat = Some(X)
ReturnedEnforcedDrain(t) ==
    /\ pc[t] = "done"
    /\ op[t] \in {"build_drain_tx", "build_tx_or_drain_tx"}
    /\ loc[t].drain_calls = 1
    /\ loc[t].d_enforce # None

\* C1: build_tx_or_drain_tx, when build_tx fails with InsufficientFunds on
\* the native asset, makes exactly one build_drain_tx attempt with the same
\* fee rate and recipient and enforce_amount_sat = amount_sat and returns
\* that attempt's result; when build_tx succeeds its transaction is returned
\* and no drain is attempted.
C1_DrainFallback ==
    \A t \in Tasks :
        /\ (op[t] = "build_tx_or_drain_tx"
              /\ pc[t] \in {"build_drain_tx_lock", "build_drain_tx"})
           => /\ loc[t].drain_calls = 1
              /\ loc[t].d_fee_rate = args[t].fee_rate
              /\ loc[t].d_recipient = args[t].recipient
              /\ loc[t].d_enforce = args[t].amount
        /\ (ReturnedOrDrain(t) /\ BuildFailedInsufficient(t) /\ args[t].asset = LBTC)
           => /\ loc[t].drain_calls = 1
              /\ loc[t].d_fee_rate = args[t].fee_rate
              /\ loc[t].d_recipient = args[t].recipient
              /\ loc[t].d_enforce = args[t].amount
              /\ result[t] = loc[t].dr_res
              /\ result[t].status = "Ok"
                 => result[t].tx.drain /\ result[t].tx.amount = args[t].amount
        /\ (ReturnedOrDrain(t) /\ loc[t].bt_res.status = "Ok")
           => /\ result[t] = loc[t].bt_res
              /\ ~result[t].tx.drain
              /\ loc[t].drain_calls = 0

\* C1 witness: a fallback that went through the drain and succeeded
C1_Witness ==
    \E t \in Tasks :
        /\ ReturnedOrDrain(t) /\ BuildFailedInsufficient(t)
        /\ args[t].asset = LBTC
        /\ args[t].fee_rate = "Some"
        /\ result[t].status = "Ok" /\ result[t].tx.drain

\* C2: build_tx_or_drain_tx returns an InsufficientFunds error on a
\* non-native asset as that same error, and any other build_tx error
\* unchanged, for every asset id; build_drain_tx is not invoked in either case.
C2_NoDrainOutsideFallback ==
    \A t \in Tasks :
        /\ (op[t] = "build_tx_or_drain_tx" /\ loc[t].drain_calls > 0)
           => BuildFailedInsufficient(t) /\ args[t].asset = LBTC
        /\ (ReturnedOrDrain(t) /\ BuildFailedInsufficient(t) /\ args[t].asset # LBTC)
           => /\ result[t] = Err("InsufficientFunds")
              /\ loc[t].drain_calls = 0
        /\ (ReturnedOrDrain(t) /\ loc[t].bt_res.status = "Err"
              /\ loc[t].bt_res.err # "InsufficientFunds")
           => /\ result[t] = loc[t].bt_res
              /\ loc[t].drain_calls = 0

\* C2 witness: InsufficientFunds on a non-native asset came back as it was
C2_Witness ==
    \E t \in Tasks :
        /\ ReturnedOrDrain(t) /\ BuildFailedInsufficient(t)
        /\ args[t].asset = USDT
        /\ result[t] = Err("InsufficientFunds")

\* C3 (as stated): build_drain_tx with enforce_amount_sat = X either returns
\* a transaction whose (-(native balance delta) - fee) is exactly X or fails
\* with PaymentError::Generic.
C3_Original ==
    \A t \in Tasks :
        ReturnedEnforcedDrain(t)
        => \/ /\ result[t].status = "Ok"
              /\ 0 - result[t].tx.delta - result[t].tx.fee = loc[t].d_enforce
           \/ result[t] = Err("Generic")

\* C3 (amended): build_drain_tx with enforce_amount_sat = X never returns a
\* transaction whose (-(native balance delta) - fee) differs from X; a drain
\* whose amount differs from X fails with Generic, and the other failures
\* are the wallet library's (InsufficientFunds when nothing can be drained,
\* LwkError) or the signer's (Generic).
C3_EnforcedAmount ==
    \A t \in Tasks :
        ReturnedEnforcedDrain(t)
        => /\ result[t].status = "Ok"
              => /\ 0 - result[t].tx.delta - result[t].tx.fee = loc[t].d_enforce
                 /\ result[t].tx.amount = loc[t].d_enforce
                 /\ result[t].tx.drain
           /\ (loc[t].d_recipient = "valid"
                 /\ loc[t].drain_balance > loc[t].drain_fee
                 /\ loc[t].drain_balance - loc[t].drain_fee # loc[t].d_enforce)
              => result[t] = Err("Generic")
           /\ result[t].status = "Err"
              => result[t].err \in {"Generic", "InsufficientFunds", "LwkError"}

\* C3 witness: an enforced build_drain_tx that returned its transaction
C3_Witness ==
    \E t \in Tasks :
        /\ op[t] = "build_drain_tx"
        /\ ReturnedEnforcedDrain(t)
        /\ result[t].status = "Ok"
        /\ loc[t].drain_balance - loc[t].drain_fee = loc[t].d_enforce

\* the scenario of C4: 100,000 sat of the native asset asked from a wallet
\* holding 100,050 sat, with a fee of 100 sat on the build_tx attempt
Scenario(t) ==
    /\ ReturnedOrDrain(t)
    /\ args[t].asset = LBTC /\ args[t].recipient = "valid"
    /\ args[t].amount = 100000
    /\ loc[t].tx_balance = 100050 /\ loc[t].tx_fee = 100

\* C4 (as stated): with a balance of 100,050 sat and a fee of 100 sat,
\* build_tx for 100,000 sat fails with InsufficientFunds and
\* build_tx_or_drain_tx succeeds through the drain with enforce_amount_sat =
\* 100,000, the transaction's net outflow being exactly 100,000 sat.
C4_Original ==
    \A t \in Tasks :
        (Scenario(t) /\ loc[t].drain_balance = 100050 /\ loc[t].drain_fee = 100)
        => /\ BuildFailedInsufficient(t)
           /\ loc[t].d_enforce = 100000
           /\ result[t].status = "Ok"
           /\ result[t].tx.drain
           /\ 0 - result[t].tx.delta - result[t].tx.fee = 100000

\* C4 (amended): in that scenario build_tx fails with InsufficientFunds and
\* build_tx_or_drain_tx retries as a drain with enforce_amount_sat = 100,000;
\* with a drain fee of 100 sat the drain would transfer 99,950 sat and the
\* call fails with Generic; the call succeeds only when the drain fee is
\* 50 sat, and then the net outflow is exactly 100,000 sat.
C4_Scenario ==
    \A t \in Tasks :
        (Scenario(t) /\ loc[t].drain_balance = 100050)
        => /\ BuildFailedInsufficient(t)
           /\ loc[t].drain_calls = 1
           /\ loc[t].d_enforce = 100000
           /\ loc[t].drain_fee = 100 => result[t] = Err("Generic")
           /\ result[t].status = "Ok"
              => /\ loc[t].drain_fee = 50
                 /\ result[t].tx.drain
                 /\ 0 - result[t].tx.delta - result[t].tx.fee = 100000

\* C4 witness: the scenario with a fee of 100 sat on both attempts
C4_Witness ==
    \E t \in Tasks :
        /\ Scenario(t) /\ loc[t].drain_balance = 100050
        /\ loc[t].drain_fee = 100
        /\ result[t] = Err("Generic")

\* a next_unused_address call that has returned an address
ReturnedAddress(t) ==
    op[t] = "next_unused_address" /\ pc[t] = "done" /\ result[t].status = "Ok"
\* some reservation is eligible for reuse at the wallet's tip
SomeExpired == \E r \in reserved : r.expiry <= wallet.tip

\* C5: under every interleaving of two concurrent next_unused_address calls
\* (also when no last derivation index is persisted yet) the two calls never
\* return the same derivation index.
\* (Both addresses are freshly derived and the reservation each caller makes
\* for its address, lasting ReservationBlocks from the tip the call read, is
\* unexpired at the wallet's tip.)
C5_ConcurrentDistinct ==
    \A t, u \in Tasks :
        (t # u /\ ReturnedAddress(t) /\ ReturnedAddress(u)
           /\ ~loc[t].reused /\ ~loc[u].reused
           /\ wallet.tip < loc[t].tip + ReservationBlocks
           /\ wallet.tip < loc[u].tip + ReservationBlocks)
        => result[t].index # result[u].index

\* C6: two sequential next_unused_address calls made while the tip is below
\* every reservation's expiry (neither reuses a reservation) never return
\* the same derivation index, whether the persisted last derivation index
\* was absent or present.
C6_SequentialDistinct ==
    \A t, u \in Tasks :
        (t # u /\ ReturnedAddress(t) /\ ReturnedAddress(u)
           /\ ~loc[t].reused /\ ~loc[u].reused)
        => result[t].index # result[u].index

\* C6 witness: a call that found no persisted index, then a call that found
\* the index the first one persisted, both holding their addresses
C6_Witness ==
    \E t, u \in Tasks :
        /\ t # u /\ ReturnedAddress(t) /\ ReturnedAddress(u)
        /\ ~loc[t].reused /\ ~loc[u].reused
        /\ loc[t].last_at_call = None
        /\ loc[u].last_at_call = result[t].index

\* C7: next_unused_address returns a reserved address exactly when the
\* persister holds a reservation whose expiry height is <= the wallet's
\* current tip (tip = expiry included), taking that reservation out of the
\* persister, and goes on to derive an address from the descriptor wallet
\* only when there is none.
C7_ReuseExactlyWhenExpired ==
    [][\A t \in Tasks :
         (pc[t] = "next_expired_reserved_address" /\ pc'[t] # pc[t])
         => IF SomeExpired
            THEN /\ pc'[t] = "done"
                 /\ result'[t].status = "Ok"
                 /\ \E r \in reserved :
                       /\ r.expiry <= wallet.tip
                       /\ r.index = result'[t].index
                       /\ reserved' = reserved \ {r}
            ELSE /\ pc'[t] = "next_derivation_index"
                 /\ reserved' = reserved]_vars

\* C7 witness: a reservation reused at the very height it expires
C7_Witness ==
    \E t \in Tasks :
        /\ ReturnedAddress(t)
        /\ loc[t].reused
        /\ loc[t].expiry = loc[t].tip
        /\ wallet.tip = loc[t].tip

\* C8: when a next_unused_address call that derived a fresh index returns,
\* the persisted last derivation index is the index of the returned address;
\* when a call that reused an expired reservation returns, the persisted
\* last derivation index is what it was when the call began.
C8_PersistedIndex ==
    [][\A t \in Tasks :
         (op[t] = "next_unused_address" /\ pc[t] # "done" /\ pc'[t] = "done")
         => IF loc'[t].reused
            THEN lastIndex' = loc[t].last_at_call
            ELSE lastIndex' = result'[t].index]_vars

\* C8 witness: one caller holds a freshly derived address, the persisted
\* index being its index, the other a reused one
C8_Witness ==
    \E t, u \in Tasks :
        /\ t # u /\ ReturnedAddress(t) /\ ReturnedAddress(u)
        /\ ~loc[t].reused
        /\ lastIndex = result[t].index
        /\ loc[u].reused
        /\ lastIndex = loc[u].last_at_call

\* C9: after a successful full_scan the persisted last-scanned derivation
\* index is the last derivation index the call read before the scan, also
\* when a concurrent next_unused_address advanced the last derivation index
\* while the scan was running.
C9_CheckpointIsPreScanIndex ==
    \A t \in Tasks :
        (pc[t] = "full_scan_return" /\ loc[t].res.status = "Ok")
        => lastScanned = loc[t].last

\* C9 witness: a scan about to return Ok while the persisted last derivation
\* index has moved on from the one it read
C9_Witness ==
    \E t \in Tasks :
        /\ pc[t] = "full_scan_return" /\ loc[t].res.status = "Ok"
        /\ lastIndex # None
        /\ lastIndex > loc[t].last
        /\ lastScanned = loc[t].last

\* C10: when the first scan of a full_scan reports UpdateHeightTooOld the
\* wallet's local store is recreated from scratch and the scan retried
\* exactly once with the same network client and scan ceiling; a call scans
\* at most twice, and any other first-scan error ends it without a retry.
C10_WipeAndRetryOnce ==
    \A t \in Tasks :
        op[t] = "full_scan"
        => /\ Len(loc[t].scans) <= 2
           /\ pc[t] = "full_scan_retry"
              => /\ loc[t].new_wallet = EmptyWallet
                 /\ disk = EmptyWallet
                 /\ Len(loc[t].scans) = 1
           /\ Len(loc[t].scans) = 2
              => /\ loc[t].scans[1].outcome = "UpdateHeightTooOld"
                 /\ loc[t].scans[2].fresh
                 /\ loc[t].scans[2].ceiling = loc[t].scans[1].ceiling
                 /\ loc[t].scans[2].client = loc[t].scans[1].client
           /\ (Len(loc[t].scans) >= 1
                 /\ loc[t].scans[1].outcome \notin {"Ok", "UpdateHeightTooOld"})
              => /\ Len(loc[t].scans) = 1
                 /\ pc[t] \notin {"full_scan_recreate", "full_scan_retry"}

\* a full_scan that has ended after its first scan reported a height
\* regression of the wallet store
EndedAfterRegression(t) ==
    /\ op[t] = "full_scan" /\ pc[t] = "done"
    /\ Len(loc[t].scans) >= 1
    /\ loc[t].scans[1].outcome = "UpdateHeightTooOld"

\* C11: a full_scan whose first scan reported UpdateHeightTooOld returns Ok
\* when the retry succeeds, and PaymentError::Generic when the wallet
\* recreation or the retried scan fails.
C11_RegressionOkOrGeneric ==
    \A t \in Tasks :
        EndedAfterRegression(t)
        => \/ result[t].status = "Ok" /\ Len(loc[t].scans) = 2
                /\ loc[t].scans[2].outcome = "Ok"
           \/ result[t].status = "Err" /\ result[t].err = "Generic"

\* positions at which a task reads or mutates the descriptor wallet
WalletSection ==
    {"build_tx", "build_drain_tx", "tip", "address", "transactions",
     "full_scan_scan", "full_scan_recreate", "full_scan_retry",
     "full_scan_persist", "full_scan_return"}

\* positions at which a task holds or uses the network client
ClientSection ==
    {"full_scan_client", "full_scan_index", "full_scan_wallet_lock",
     "full_scan_scan", "full_scan_recreate", "full_scan_retry",
     "full_scan_persist", "full_scan_return"}

InWallet(t) == pc[t] \in WalletSection
InClient(t) == pc[t] \in ClientSection

\* C12: at most one task is inside a wallet-reading or wallet-mutating
\* section and at most one task is using the network client; a task inside
\* either section is the holder of the lock that guards it (full_scan,
\* build_tx and build_drain_tx hold the wallet lock throughout).
C12_MutualExclusion ==
    /\ Cardinality({t \in Tasks : InWallet(t)}) <= 1
    /\ Cardinality({t \in Tasks : InClient(t)}) <= 1
    /\ \A t \in Tasks : InWallet(t) => walletLock = t
    /\ \A t \in Tasks : InClient(t) => clientLock = t

\* C12 witness: a transaction builder waits for the wallet while a full_scan
\* holding both locks is retrying its scan
C12_Witness ==
    \E t, u \in Tasks :
        /\ pc[t] = "full_scan_retry" /\ walletLock = t /\ clientLock = t
        /\ pc[u] \in {"build_tx_lock", "build_drain_tx_lock"}

\* no lock is held by a task that is outside every operation
NoLockLeaked ==
    \A t \in Tasks :
        pc[t] \in {"idle", "done"} => (walletLock # t /\ clientLock # t)

\* C13: an operation that has ended (success, error return, or cancellation
\* at an .await) holds neither the wallet lock nor the network-client lock,
\* and a caller waiting for a lock eventually leaves the wait (it acquires
\* the lock, unless its own caller abandons the call first).
C13_LocksReleased ==
    /\ []NoLockLeaked
    /\ \A t \in Tasks : \A s \in Suspended : (pc[t] = s) ~> (pc[t] # s)

\* C13 witness: a full_scan abandoned while it waited for the wallet, its
\* client guard dropped, and the other caller now holding the client lock
C13_Witness ==
    \E t, u \in Tasks :
        /\ t # u
        /\ op[t] = "full_scan" /\ pc[t] = "done" /\ result[t] = Cancelled
        /\ loc[t].last # None /\ loc[t].scans = <<>>
        /\ op[u] = "full_scan" /\ clientLock = u

\* positions of a full_scan between taking the wallet lock and returning
ScanSection ==
    {"full_scan_scan", "full_scan_recreate", "full_scan_retry",
     "full_scan_persist", "full_scan_return"}

\* the histories a wallet holds between scans: none yet, or all of a scan
CompleteHistories == {EmptyWallet} \cup {scanned(k) : k \in 0..MaxTip}

\* C14: transactions() / transactions_by_tx_id() never reads the wallet
\* while a full_scan is between taking the wallet lock and returning (the
\* recreate-and-swap path included): the history it returns is the whole
\* history the wallet held before that scan or after it.
C14_HistoryNeverPartial ==
    [][\A t \in Tasks :
         (pc[t] = "transactions" /\ pc'[t] = "done")
         => /\ \A u \in Tasks : pc[u] \notin ScanSection
            /\ result'[t].status = "Ok"
               => /\ loc'[t].history = wallet
                  /\ loc'[t].history \in CompleteHistories]_vars

\* C14 witness: a caller holds the history it read before a concurrent
\* full_scan took the wallet; that scan has since recreated the wallet,
\* rescanned it and swapped in a different history
C14_Witness ==
    \E t, u \in Tasks :
        /\ op[t] \in {"transactions", "transactions_by_tx_id"}
        /\ pc[t] = "done" /\ result[t].status = "Ok"
        /\ pc[u] = "full_scan_persist" /\ Len(loc[u].scans) = 2
        /\ loc[t].history \in CompleteHistories
        /\ loc[t].history # wallet

\* C15: the network client is constructed successfully at most once: a
\* full_scan that finds the slot filled goes on with that client and builds
\* nothing; one that finds it empty either fills it, or fails, leaving the
\* slot empty and ending the call before any scan; every scan of every call
\* uses the one client.
C15_ClientBuiltOnce ==
    /\ [](/\ clientsBuilt <= 1
          /\ client = clientsBuilt
          /\ \A t \in Tasks : \A i \in 1..Len(loc[t].scans) :
                loc[t].scans[i].client = 1)
    /\ [][\A t \in Tasks :
            (pc[t] = "full_scan_client" /\ pc'[t] # pc[t])
            => IF client # 0
               THEN /\ client' = client /\ clientsBuilt' = clientsBuilt
                    /\ pc'[t] = "full_scan_index"
               ELSE \/ /\ client' = 1 /\ clientsBuilt' = 1
                       /\ pc'[t] = "full_scan_index"
                    \/ /\ client' = 0 /\ clientsBuilt' = 0
                       /\ pc'[t] = "done"
                       /\ result'[t].status = "Err"
                       /\ loc'[t].scans = <<>>]_vars

\* C15 witness: two calls have scanned, one finished and one still inside
\* its scan, with a single client ever built
C15_Witness ==
    \E t, u \in Tasks :
        /\ t # u
        /\ op[t] = "full_scan" /\ op[u] = "full_scan"
        /\ Len(loc[t].scans) >= 1 /\ Len(loc[u].scans) >= 1
        /\ pc[t] = "done" /\ pc[u] \in ScanSection
        /\ client = 1 /\ clientsBuilt = 1

\* unsigned order of two u32 words
U32Less(a, b) == IF (a < 0) = (b < 0) THEN a < b ELSE b < 0

\* C16: for every persisted index (absent counting as 0) the ceiling
\* full_scan computes is last + 5 as a 32-bit unsigned value: the addition
\* neither faults nor wraps around.
C16_CeilingExact ==
    (calc.fn = "index_with_buffer" /\ calc.applied)
    => /\ ~calc.panic
       /\ U32Less(calc.last, calc.ceiling)
       /\ calc.ceiling - calc.last = ScanBuffer

\* C17: recovery idempotence: for every swap kind, record, matched
\* transactions and tip, resolving the resolved record again with the same
\* matches and tip returns it unchanged.
C17_ResolveIdempotent ==
    (calc.fn = "resolve" /\ calc.applied = 2) => calc.twice = calc.once

\* C17 witness: the first resolve moved a chain swap to a non-terminal state
\* and the second one recomputed it from there
C17_Witness ==
    /\ calc.fn = "resolve" /\ calc.applied = 2
    /\ calc.record.kind \in ChainKinds
    /\ calc.once # calc.record
    /\ calc.once.state \notin TerminalStates
    /\ calc.twice = calc.once

\* C18: terminal states are absorbing: a record whose state is Complete,
\* Refunded, Expired or Failed is returned unchanged by resolve, for every
\* matched transaction set and tip, at the first scan and at the next.
C18_TerminalAbsorbing ==
    calc.fn = "resolve"
    => /\ (calc.applied >= 1 /\ calc.record.state \in TerminalStates)
             => calc.once = calc.record
       /\ (calc.applied = 2 /\ calc.once.state \in TerminalStates)
             => calc.twice = calc.once

\* C18 witness: an Expired record resolved against a confirmed claim, which
\* would make any non-terminal record Complete
C18_Witness ==
    /\ calc.fn = "resolve" /\ calc.applied = 2
    /\ calc.record.state = "Expired"
    /\ swap_state(calc.record.kind, calc.matched, calc.tip,
                  calc.record.timeout) = "Complete"
    /\ calc.twice = calc.record

\* the first resolve of a non-terminal record has been applied
ResolvedNonTerminal ==
    /\ calc.fn = "resolve" /\ calc.applied >= 1
    /\ calc.record.state \notin TerminalStates

\* C19 as stated: a non-terminal swap with a matched claim and no refund
\* resolves to Complete with the claim txid recorded when the claim is
\* confirmed, and to Pending when the claim is only in the mempool.
C19_Original ==
    (/\ ResolvedNonTerminal
     /\ matched_heights("claim", calc.matched) # {}
     /\ matched_heights("refund", calc.matched) = {})
    => IF \E c \in matched_heights("claim", calc.matched) : confirmed(c)
       THEN /\ calc.once.state = "Complete"
            /\ calc.once.claim_txid = matched_txids("claim", calc.matched)
       ELSE calc.once.state = "Pending"

\* C19: a non-terminal swap with a matched claim and no refund resolves to
\* Complete with the claim txid recorded when the claim is confirmed, on
\* both legs for a chain swap, whatever the tip (never Refunded or
\* Refundable); it resolves to Pending when the claim is only in the
\* mempool or, for a chain swap, is not confirmed on both legs.
C19_ClaimWithoutRefund ==
    (/\ ResolvedNonTerminal
     /\ matched_heights("claim", calc.matched) # {}
     /\ matched_heights("refund", calc.matched) = {})
    => IF \A i \in 1..Len(calc.matched) : confirmed(calc.matched[i].claim)
       THEN /\ calc.once.state = "Complete"
            /\ calc.once.claim_txid = matched_txids("claim", calc.matched)
       ELSE calc.once.state = "Pending"

\* C19 witness: past the timeout, a send swap with a confirmed claim and no
\* refund has been resolved to Complete
C19_Witness ==
    /\ ResolvedNonTerminal
    /\ calc.record.kind = "send"
    /\ calc.tip > calc.record.timeout
    /\ confirmed(calc.matched[1].claim)
    /\ ~observed(calc.matched[1].refund)
    /\ calc.once.state = "Complete"

\* C20 as stated: a non-terminal swap with no confirmed claim and a matched
\* refund resolves to Refunded with the refund txid recorded.
C20_Original ==
    (/\ ResolvedNonTerminal
     /\ \A c \in matched_heights("claim", calc.matched) : ~confirmed(c)
     /\ matched_heights("refund", calc.matched) # {})
    => /\ calc.once.state = "Refunded"
       /\ calc.once.refund_txid = matched_txids("refund", calc.matched)

\* C20: a non-terminal swap with no matched claim, confirmed or in the
\* mempool, and a matched refund resolves to Refunded with the refund txid
\* recorded.
C20_RefundWithoutClaim ==
    (/\ ResolvedNonTerminal
     /\ matched_heights("claim", calc.matched) = {}
     /\ matched_heights("refund", calc.matched) # {})
    => /\ calc.once.state = "Refunded"
       /\ calc.once.refund_txid = matched_txids("refund", calc.matched)

\* C20 witness: past the timeout, a receive swap whose refund is in the
\* mempool and which has no claim has been resolved to Refunded
C20_Witness ==
    /\ ResolvedNonTerminal
    /\ calc.record.kind = "receive"
    /\ calc.tip > calc.record.timeout
    /\ calc.matched[1].refund = 0
    /\ ~observed(calc.matched[1].claim)
    /\ calc.once.state = "Refunded"
    /\ calc.once.refund_txid # {}

\* C21 as stated: a non-terminal swap with no matched claim and no matched
\* refund resolves to Refundable exactly when tip > timeoutHeight.
C21_Original ==
    (/\ ResolvedNonTerminal
     /\ matched_heights("claim", calc.matched) = {}
     /\ matched_heights("refund", calc.matched) = {})
    => (calc.once.state = "Refundable" <=> calc.tip > calc.record.timeout)

\* C21: a non-terminal swap with no matched claim and no matched refund
\* resolves to Refundable whenever tip > timeoutHeight, an observed lockup
\* notwithstanding; at tip <= timeoutHeight (tip = timeoutHeight included)
\* resolve never moves it to Refundable: the result is Refundable only for a
\* record that was Refundable already and has no lockup observed, which is
\* returned unchanged.
C21_RefundablePastTimeout ==
    (/\ ResolvedNonTerminal
     /\ matched_heights("claim", calc.matched) = {}
     /\ matched_heights("refund", calc.matched) = {})
    => IF calc.tip > calc.record.timeout
       THEN calc.once.state = "Refundable"
       ELSE calc.once.state = "Refundable"
            <=> /\ calc.record.state = "Refundable"
                /\ matched_heights("lockup", calc.matched) = {}
                /\ calc.once = calc.record

\* C21 witness: one block past the timeout a swap with a confirmed lockup,
\* no claim and no refund has been resolved to Refundable
C21_Witness ==
    /\ ResolvedNonTerminal
    /\ calc.record.state = "Created"
    /\ calc.tip = calc.record.timeout + 1
    /\ matched_heights("claim", calc.matched) = {}
    /\ matched_heights("refund", calc.matched) = {}
    /\ \A i \in 1..Len(calc.matched) : confirmed(calc.matched[i].lockup)
    /\ calc.once.state = "Refundable"

\* C22: the scenario as a trace: the swap with timeout height 100 and no
\* matching transaction is Created after a scan at tip 50 and Refundable
\* after a scan at tip 150; once a scan has matched the confirmed refund of
\* block 151 it is Refunded with the refund txid set, and every resolve
\* after that leaves the record unchanged.
C22_Scenario ==
    /\ []((calc.fn = "scenario" /\ calc.tips # <<>>)
           => /\ calc.tips[Len(calc.tips)] = 50 => calc.record.state = "Created"
              /\ calc.tips[Len(calc.tips)] = 150
                    => calc.record.state = "Refundable"
              /\ calc.found
                    => /\ calc.record.state = "Refunded"
                       /\ calc.record.refund_txid = {<<"refund", 1>>})
    /\ [][(calc.fn = "scenario" /\ calc.record.state = "Refunded")
             => calc'.record = calc.record]_vars

\* C22 witness: scans at tips 50 and 150, the scan at 151 that found the
\* refund, and a further resolve at 152 against a confirmed claim of block
\* 150, with the record still Refunded
C22_Witness ==
    /\ calc.fn = "scenario"
    /\ calc.tips = <<50, 150, 151, 152>>
    /\ calc.found
    /\ calc.matched[1].claim = 150
    /\ calc.record.state = "Refunded"

\* C23: a chain-receive or chain-send swap is resolved to Complete only when
\* both legs are complete (the claim of each is confirmed); a confirmed
\* destination claim with a source leg whose lockup is observed but which
\* has no claim yields Pending.
C23_ChainCompleteBothLegs ==
    (ResolvedNonTerminal /\ calc.record.kind \in ChainKinds)
    => /\ calc.once.state = "Complete"
             => \A i \in 1..2 : confirmed(calc.matched[i].claim)
       /\ (/\ confirmed(calc.matched[2].claim)
           /\ matched_heights("refund", calc.matched) = {}
           /\ ~observed(calc.matched[1].claim)
           /\ observed(calc.matched[1].lockup))
             => calc.once.state = "Pending"

\* C23 witness: a chain-send swap whose destination claim is confirmed while
\* the source lockup is still in the mempool has been resolved to Pending
C23_Witness ==
    /\ ResolvedNonTerminal
    /\ calc.record.kind = "chain_send"
    /\ calc.record.state = "Created"
    /\ confirmed(calc.matched[2].claim)
    /\ matched_heights("refund", calc.matched) = {}
    /\ ~observed(calc.matched[1].claim)
    /\ calc.matched[1].lockup = 0
    /\ calc.once.state = "Pending"

\* C24: when both a claim and a refund match the swap, resolve yields
\* Complete only if the claim is strictly more mature than the refund (it is
\* confirmed, and the refund is unconfirmed or in a later block), and a
\* receive or send swap then is Complete; otherwise it yields
\* Failed(ambiguous-resolution); it never yields Refunded.
C24_TieBreak ==
    (/\ ResolvedNonTerminal
     /\ matched_heights("claim", calc.matched) # {}
     /\ matched_heights("refund", calc.matched) # {})
    => LET mature == \A c \in matched_heights("claim", calc.matched),
                        r \in matched_heights("refund", calc.matched) :
                        c > 0 /\ (r = 0 \/ c < r)
       IN /\ calc.once.state = "Complete" => mature
          /\ (mature /\ legs_of(calc.record.kind) = 1)
                => calc.once.state = "Complete"
          /\ ~mature => /\ calc.once.state = "Failed"
                        /\ calc.once.reason = "ambiguous-resolution"
          /\ calc.once.state # "Refunded"

\* C24 witness: a claim and a refund confirmed in the same block have made
\* a receive swap Failed(ambiguous-resolution)
C24_Witness ==
    /\ ResolvedNonTerminal
    /\ calc.record.kind = "receive"
    /\ confirmed(calc.matched[1].claim)
    /\ calc.matched[1].refund = calc.matched[1].claim
    /\ calc.once.state = "Failed"
    /\ calc.once.reason = "ambiguous-resolution"

\* check_message has been called after a signing
Checked == calc.fn = "message" /\ calc.step = 2

\* the checked message, public key text, signature text: which are the ones
\* of the signing
SameMessage == calc.checked.message = calc.message
SamePubkey == calc.checked.pubkey = pubkey(calc.signer)
SameSignature == calc.checked.signature = calc.signature

\* exactly one of the three differs from the signing
OneDiffers ==
    \/ ~SameMessage /\ SamePubkey /\ SameSignature
    \/ SameMessage /\ ~SamePubkey /\ SameSignature
    \/ SameMessage /\ SamePubkey /\ ~SameSignature

\* the checked signature text is a valid recoverable signature of the
\* signed message under the signing key: the signer's own, or the one of
\* another nonce
ValidSignature ==
    \E n \in Nonces :
        calc.checked.signature =
            encode_full_bytes(
                sign_ecdsa_recoverable(
                    calc.signer, double_hashed_msg(LN_MESSAGE_PREFIX, calc.message), n))

\* C25 as stated: check_message(m, pubkey(), sign_message(m)) is true, and
\* check_message returns false when the message, the public key or the
\* signature differs from the one of the signing.
C25_Original ==
    Checked
    => /\ (SameMessage /\ SamePubkey /\ SameSignature)
             => calc.verdict = [status |-> "Ok", value |-> TRUE]
       /\ OneDiffers => calc.verdict = [status |-> "Ok", value |-> FALSE]

\* C25: check_message(m, pubkey(), sign_message(m)) is true for every
\* message m; with the other two as in the signing, check_message returns
\* false for another message, for the well-formed public key of another
\* key, and for another signature text unless that text is itself a valid
\* signature of m under the signing key (one made with another nonce), for
\* which it returns true; for a malformed public key text it returns an
\* error.
C25_SignCheckRoundTrip ==
    Checked
    => /\ (SameMessage /\ SamePubkey /\ SameSignature)
             => calc.verdict = [status |-> "Ok", value |-> TRUE]
       /\ ~from_str(calc.checked.pubkey).ok => calc.verdict.status = "Err"
       /\ (OneDiffers /\ from_str(calc.checked.pubkey).ok)
             => calc.verdict =
                  [status |-> "Ok",
                   value |-> SameMessage /\ SamePubkey /\ ValidSignature]

\* C25 witness: the message, the wallet's public key and the signature of
\* the signing have been checked and found valid
C25_Witness ==
    /\ Checked
    /\ SameMessage /\ SamePubkey /\ SameSignature
    /\ calc.verdict = [status |-> "Ok", value |-> TRUE]

\* C26: given a well-formed public key, check_message returns Ok(true) or
\* Ok(false) for every signature text, never an error.
C26_NoErrorOnSignature ==
    (Checked /\ from_str(calc.checked.pubkey).ok)
    => /\ calc.verdict.status = "Ok"
       /\ calc.verdict.value \in BOOLEAN

\* C26 witness: a signature text that is not zbase32, checked against the
\* wallet's own public key, has given Ok(false)
C26_Witness ==
    /\ Checked
    /\ SamePubkey
    /\ calc.checked.signature = NotZbase32
    /\ calc.verdict = [status |-> "Ok", value |-> FALSE]

\* the thirteen variants in tag order, and those that carry a payload
PaymentErrorVariants ==
    <<"AlreadyClaimed", "AmountOutOfRange", "Generic", "InvalidOrExpiredFees",
      "InsufficientFunds", "InvalidInvoice", "InvalidPreimage", "LwkError",
      "PairsNotFound", "PersistError", "Refunded", "SendError", "SignerError">>

PayloadFields(variant) ==
    IF variant = "Refunded" THEN {"err", "refund_tx_id"}
    ELSE IF variant \in {"Generic", "LwkError", "SendError", "SignerError"}
    THEN {"err"}
    ELSE {}

\* C27: decoding a wire payment error maps tag t in 0..12 to the t-th of
\* the thirteen variants, with exactly the payload fields of that variant
\* read from the wire value (err for Generic, LwkError, SendError,
\* SignerError; err and refund_tx_id for Refunded; none otherwise); any
\* other tag, the default -1 included, is the unrecoverable fault and no
\* variant.
C27_DecodePaymentError ==
    (calc.fn = "cst_decode" /\ calc.decoded)
    => IF calc.wire.tag \in 0..12
       THEN /\ calc.error.variant = PaymentErrorVariants[calc.wire.tag + 1]
            /\ calc.error.fields =
                 {<<f, calc.wire.kind[f].bytes>> :
                     f \in PayloadFields(calc.error.variant)}
       ELSE calc.error = Unreachable

\* C27 witness: tag 10 has been decoded to Refunded with both payload fields
\* read from the wire value
C27_Witness ==
    /\ calc.fn = "cst_decode" /\ calc.decoded
    /\ calc.wire.tag = 10
    /\ calc.error.variant = "Refunded"
    /\ calc.error.fields = {<<"err", "insufficient">>, <<"refund_tx_id", "txid">>}

\* the positions of a txid in the list
Positions(list, txid) == {i \in 1..Len(list) : list[i].txid = txid}

\* the greatest element of a non-empty set of positions
Last(S) == CHOOSE i \in S : \A j \in S : j <= i

\* C28: the map transactions_by_tx_id returns has exactly one entry per
\* distinct txid of the transaction list, each key equal to the txid of its
\* value; a txid that is in the list more than once, first without a height
\* and later with one, has the single entry of its later occurrence.
C28_OneEntryPerTxid ==
    (calc.fn = "transactions_by_tx_id" /\ calc.status = "Ok")
    => /\ DOMAIN calc.map = {calc.list[i].txid : i \in 1..Len(calc.list)}
       /\ \A k \in DOMAIN calc.map :
            /\ calc.map[k].txid = k
            /\ calc.map[k] = calc.list[Last(Positions(calc.list, k))]

\* C28 witness: txid a is listed without a height and then with one, next
\* to txid b; the map has two entries and a's carries the height
C28_Witness ==
    /\ calc.fn = "transactions_by_tx_id" /\ calc.status = "Ok"
    /\ calc.list = <<[txid |-> "a", height |-> None], [txid |-> "b", height |-> None],
                     [txid |-> "a", height |-> 1]>>
    /\ DOMAIN calc.map = {"a", "b"}
    /\ calc.map["a"].height = 1

\* C29: a full_scan call that returns an error leaves the persisted
\* last-scanned derivation index unchanged: no step of a call whose scan
\* result is an error changes it.
C29_CheckpointOnlyOnSuccess ==
    [][\A t \in Tasks :
         (/\ op[t] = "full_scan"
          /\ pc[t] = "full_scan_persist"
          /\ pc'[t] # pc[t]
          /\ loc[t].res.status = "Err")
         => lastScanned' = lastScanned]_vars

\* C30: build_tx_or_drain_tx is atomic with respect to the wallet: while the
\* call is between its build_tx attempt that failed with InsufficientFunds
\* and its build_drain_tx retry no other task is inside the wallet section,
\* and the retry sees the wallet state the first attempt saw.
C30_OrDrainAtomic ==
    \A t \in Tasks :
        op[t] = "build_tx_or_drain_tx"
        => /\ pc[t] = "build_drain_tx_lock" => walletLock = NoTask
           /\ (pc[t] = "done" /\ loc[t].drain_calls = 1)
                 => loc[t].drain_balance = loc[t].tx_balance

\* C31: in full_scan's wipe-and-retry path the shared wallet handle is
\* replaced only by the step in which the retried scan succeeds; the step in
\* which recreation or the retried scan fails leaves the handle holding the
\* previous wallet and ends the call with an error.
InWipeAndRetry(t) ==
    op[t] = "full_scan" /\ pc[t] \in {"full_scan_recreate", "full_scan_retry"}

C31_HandleReplacedAfterRetry ==
    [][\A t \in Tasks :
         (InWipeAndRetry(t) /\ pc'[t] # pc[t])
         => /\ wallet' # wallet
                => /\ pc[t] = "full_scan_retry"
                   /\ loc'[t].scans[Len(loc'[t].scans)].outcome = "Ok"
                   /\ loc'[t].res = OkUnit
            /\ pc'[t] = "done"
                => /\ wallet' = wallet
                   /\ result'[t].status = "Err"]_vars

\* a call whose retried scan failed has returned the error while the handle
\* holds a wallet other than the recreated one
C31_Witness ==
    \E t \in Tasks :
        /\ op[t] = "full_scan"
        /\ pc[t] = "done"
        /\ result[t].status = "Err"
        /\ Len(loc[t].scans) = 2
        /\ loc[t].scans[2].outcome # "Ok"
        /\ wallet # loc[t].new_wallet

\* C32: deadlock freedom.  A task holds the wallet lock while it waits for
\* or takes the network-client lock in no reachable state (full_scan takes
\* the client lock first), and whenever some call is in progress at least
\* one call in progress can take a step: no interleaving of full_scan,
\* build_tx, build_drain_tx, build_tx_or_drain_tx, next_unused_address, tip
\* and transactions leaves every pending call waiting.
InProgress(t) == pc[t] \notin {"idle", "done"}

ClientBeforeWallet ==
    \A t \in Tasks :
        /\ pc[t] = "full_scan_client_lock" => walletLock # t
        /\ pc[t] = "full_scan_wallet_lock" => clientLock = t
        /\ walletLock = t /\ op[t] # "full_scan" => clientLock # t

C32_DeadlockFree ==
    /\ ClientBeforeWallet
    /\ (\E t \in Tasks : InProgress(t))
          => \E t \in Tasks : InProgress(t) /\ ENABLED call_step(t)

\* a full_scan holding the client lock waits for the wallet lock while the
\* other caller is inside the wallet section
C32_Witness ==
    \E t, u \in Tasks :
        /\ op[t] = "full_scan"
        /\ pc[t] = "full_scan_wallet_lock"
        /\ clientLock = t
        /\ walletLock = u
        /\ u # t
        /\ op[u] # "full_scan"

\* the native-asset delta of the check (absent counting as 0), its
\* magnitude, and the integer -delta - fee
Delta == IF calc.balance.some THEN calc.balance.value ELSE word(0, 0)
Magnitude == IF less(Delta, word(0, 0)) THEN word(0 - Delta.k, 0 - Delta.off) ELSE Delta
NetOutflow == word(0 - Delta.k - calc.fee.k, 0 - Delta.off - calc.fee.off)
EnforcementApplied == calc.fn = "drain_enforcement" /\ calc.applied

NoFaultRange ==
    /\ ~less(word(0, 0), Delta)
    /\ Delta # word(0 - 1, 0)
    /\ ~less(Magnitude, calc.fee)

====
